---- MODULE Spec2Model ----
(***************************************************************************)
(* A model of fd.js (srikumarks/FD.js): finite domain constraint           *)
(* programming with computation spaces.  Domains are sequences of closed   *)
(* intervals <<lo, hi>>; FDVar objects live in a heap (fdvars) so that     *)
(* sharing between a space and its clones is visible; spaces, propagators, *)
(* the brancher and the two search drivers follow src/unnamed/part_000.    *)
(***************************************************************************)
EXTENDS Integers, Sequences, FiniteSets, TLC

\* ------------------------------------------------------------------ bounds
\* The largest value of a domain.  The program uses 100000000; every bound of
\* the code is relative to FD_SUP, so the model scales it down.
MaxSup == 3

FD_SUP == MaxSup

\* ----------------------------------------------------------------- helpers
Max2(a, b) == IF a > b THEN a ELSE b

Min2(a, b) == IF a < b THEN a ELSE b

\* The integers an interval list denotes (used to state claims, not by the code).
DomSet(d) == UNION { d[i][1] .. d[i][2] : i \in 1..Len(d) }

\* Body applied to the value v, which is evaluated once: LET x == v IN Body(x).
With(v, Body(_)) == Body(v)

\* ------------------------------------------------------------ domain (CSIS)
\* d.sort(function (d1, d2) { return d1[0] - d2[0]; }) : insertion of one
\* interval into a list sorted by lo, after the entries with the same lo.
RECURSIVE InsertByLo(_, _)
InsertByLo(s, x) ==
    IF s = <<>> THEN <<x>>
    ELSE IF x[1] < s[1][1] THEN <<x>> \o s
    ELSE <<s[1]>> \o InsertByLo(Tail(s), x)

\* SortByLo leaving the list in the order given.
SortByLo_unsorted(d) == d

RECURSIVE SortByLo(_)
SortByLo(d) ==
    IF d = <<>> THEN <<>>
    ELSE InsertByLo(SortByLo(SubSeq(d, 1, Len(d) - 1)), d[Len(d)])

\* The merge loop of simplify_domain: result ends with prev; rest is d[i..].
RECURSIVE MergeSorted(_, _)
MergeSorted(result, rest) ==
    IF rest = <<>> THEN result
    ELSE LET prev == result[Len(result)]
             next == rest[1]
         IN IF prev[2] >= next[1]
            THEN MergeSorted(
                    [result EXCEPT ![Len(result)] = <<prev[1], Max2(prev[2], next[2])>>],
                    Tail(rest))
            ELSE MergeSorted(Append(result, next), Tail(rest))

\* The first loop of simplify_domain: TRUE when d[i..] passes the check that
\* lets simplify_domain return d untouched.
RECURSIVE SimplifyNothingToDo(_, _, _)
SimplifyNothingToDo(d, i, prevR) ==
    IF i > Len(d) THEN TRUE
    ELSE IF d[i][2] < d[i][1] \/ d[i][1] <= prevR \/ d[i][2] <= prevR THEN FALSE
    ELSE SimplifyNothingToDo(d, i + 1, d[i][2])

simplify_domain(d) ==
    IF Len(d) = 0 THEN d
    ELSE IF Len(d) = 1 THEN (IF d[1][2] < d[1][1] THEN <<>> ELSE d)
    ELSE IF d[1][2] >= d[1][1] /\ SimplifyNothingToDo(d, 2, d[1][2]) THEN d
    ELSE LET s == SortByLo(d) IN MergeSorted(<<s[1]>>, Tail(s))

\* The loop of the "dom2.length === 1" branch of domain_intersection.
\* IntersectWithInterval keeping each overlapping interval whole.
RECURSIVE IntersectWithInterval_unclipped(_, _, _, _)
IntersectWithInterval_unclipped(dom1, mn, mx, r) ==
    IF dom1 = <<>> THEN r
    ELSE LET d == dom1[1]
         IN IntersectWithInterval_unclipped(Tail(dom1), mn, mx,
                IF d[1] <= mx /\ d[2] >= mn THEN Append(r, d) ELSE r)

RECURSIVE IntersectWithInterval(_, _, _, _)
IntersectWithInterval(dom1, mn, mx, r) ==
    IF dom1 = <<>> THEN r
    ELSE LET d == dom1[1]
         IN IntersectWithInterval(Tail(dom1), mn, mx,
                IF d[1] <= mx /\ d[2] >= mn
                THEN Append(r, <<Max2(mn, d[1]), Min2(mx, d[2])>>)
                ELSE r)

\* domain_intersection(dom1, dom2, r); hasR tells whether r was passed.
RECURSIVE domain_intersection_r(_, _, _, _)
domain_intersection_r(dom1, dom2, r, hasR) ==
    IF Len(dom1) = 0 \/ Len(dom2) = 0 THEN r
    ELSE IF Len(dom1) = 1
    THEN IF Len(dom2) = 1
         THEN LET mn == Max2(dom1[1][1], dom2[1][1])
                  mx == Min2(dom1[1][2], dom2[1][2])
              IN IF mx >= mn THEN Append(r, <<mn, mx>>) ELSE r
         ELSE domain_intersection_r(dom2, dom1, r, hasR)
    ELSE IF Len(dom2) = 1
    THEN IntersectWithInterval(dom1, dom2[1][1], dom2[1][2], r)
    ELSE LET i  == Len(dom1) \div 2
             j  == Len(dom2) \div 2
             d1 == SubSeq(dom1, 1, i)
             d2 == SubSeq(dom1, i + 1, Len(dom1))
             d3 == SubSeq(dom2, 1, j)
             d4 == SubSeq(dom2, j + 1, Len(dom2))
             a  == domain_intersection_r(d1, d3, r, hasR)
             b  == domain_intersection_r(d1, d4, a, TRUE)
             c  == domain_intersection_r(d2, d3, b, TRUE)
             d  == domain_intersection_r(d2, d4, c, TRUE)
         IN IF hasR THEN d ELSE simplify_domain(d)

domain_intersection(dom1, dom2) == domain_intersection_r(dom1, dom2, <<>>, FALSE)

domain_equal(d1, d2) ==
    /\ Len(d1) = Len(d2)
    /\ \A i \in 1..Len(d1) : d1[i][1] = d2[i][1] /\ d1[i][2] = d2[i][2]

\* The loop of domain_complement; the code resets end from d[0], not d[i].
RECURSIVE ComplementLoop(_, _, _, _)
ComplementLoop(d, i, end, result) ==
    IF i > Len(d)
    THEN IF end < FD_SUP THEN Append(result, <<end, FD_SUP>>) ELSE result
    ELSE ComplementLoop(d, i + 1, d[1][2] + 1,
            IF end < d[i][1] THEN Append(result, <<end, d[i][1] - 1>>) ELSE result)

domain_complement(d) ==
    IF Len(d) = 0 THEN << <<0, FD_SUP>> >>
    ELSE ComplementLoop(d, 1, 0, <<>>)

\* dom_close_gaps(d, gap): the loop after the first interval was pushed.
RECURSIVE CloseGapsLoop(_, _, _)
CloseGapsLoop(result, rest, gap) ==
    IF rest = <<>> THEN result
    ELSE LET prev == result[Len(result)]
             next == rest[1]
         IN IF next[1] - prev[2] < gap
            THEN CloseGapsLoop([result EXCEPT ![Len(result)] = <<prev[1], next[2]>>],
                               Tail(rest), gap)
            ELSE CloseGapsLoop(Append(result, next), Tail(rest), gap)

\* dom_close_gaps closing gaps one wider.
dom_close_gaps_wider(d, gap) ==
    IF Len(d) = 0 THEN d ELSE CloseGapsLoop(<<d[1]>>, Tail(d), gap + 1)

dom_close_gaps(d, gap) ==
    IF Len(d) = 0 THEN d ELSE CloseGapsLoop(<<d[1]>>, Tail(d), gap)

\* Math.min.apply(null, widths); never called with an empty domain by a
\* propagator (an empty list would give Infinity: every gap is closed).
dom_smallest_interval_width(d) ==
    IF Len(d) = 0 THEN FD_SUP + 2
    ELSE LET W == { d[i][2] - d[i][1] + 1 : i \in 1..Len(d) }
         IN CHOOSE w \in W : \A u \in W : w <= u

RECURSIVE dom_close_gaps2(_, _)
dom_close_gaps2(d1, d2) ==
    LET a == dom_close_gaps(d1, dom_smallest_interval_width(d2))
        b == dom_close_gaps(d2, dom_smallest_interval_width(a))
        change == (Len(d1) - Len(a)) + (Len(d2) - Len(b))
    IN IF change > 0 THEN dom_close_gaps2(a, b) ELSE <<a, b>>

\* The interval pairs of dom_plus, in the order of its two nested loops.
PairSeq(d1, d2) ==
    [k \in 1..(Len(d1) * Len(d2)) |->
        << d1[((k - 1) \div Len(d2)) + 1], d2[((k - 1) % Len(d2)) + 1] >>]

\* The two nested loops of dom_plus and its closing simplify_domain.
plus_pairs(d1, d2) ==
    LET ps == PairSeq(d1, d2)
        p == [k \in 1..Len(ps) |->
                << Min2(FD_SUP, ps[k][1][1] + ps[k][2][1]),
                   Min2(FD_SUP, ps[k][1][2] + ps[k][2][2]) >>]
    IN simplify_domain(p)

dom_plus(d1, d2) ==
    LET d == dom_close_gaps2(d1, d2) IN plus_pairs(d[1], d[2])

\* The two nested loops of dom_minus and its closing simplify_domain.
minus_pairs(d1, d2) ==
    LET ps == PairSeq(d1, d2)
        kept == SelectSeq(ps, LAMBDA q : q[1][2] - q[2][1] >= 0)
        p == [k \in 1..Len(kept) |->
                << Max2(0, kept[k][1][1] - kept[k][2][2]),
                   kept[k][1][2] - kept[k][2][1] >>]
    IN simplify_domain(p)

dom_minus(d1, d2) ==
    LET d == dom_close_gaps2(d1, d2) IN minus_pairs(d[1], d[2])

\* domain_union: the intervals of d1, then those of d2, simplified.
domain_union(d1, d2) == simplify_domain(d1 \o d2)

dom_times(d1, d2) ==
    LET ps == PairSeq(d1, d2)
        p == [k \in 1..Len(ps) |->
                << Min2(FD_SUP, ps[k][1][1] * ps[k][2][1]),
                   Min2(FD_SUP, ps[k][1][2] * ps[k][2][2]) >>]
    IN simplify_domain(p)

\* dom_divby divides with JavaScript's "/", which gives fractions.  A number
\* q of a quotient domain is held as the integer q * Unit, which is exact
\* for every quotient of integers of [0, FD_SUP] by a divisor in 1..FD_SUP.
RECURSIVE Factorial(_)
Factorial(n) == IF n <= 1 THEN 1 ELSE n * Factorial(n - 1)

Unit == Factorial(FD_SUP)

\* An integer domain in the units of a quotient domain.
ScaleDom(d) == [i \in 1..Len(d) |-> << d[i][1] * Unit, d[i][2] * Unit >>]

\* dom_divby(d1, d2) for integer domains d1, d2; the result is in units of
\* 1 / Unit (hi >= 0 and lo >= 0 always hold here).
dom_divby(d1, d2) ==
    LET ps == PairSeq(d1, d2)
        kept == SelectSeq(ps, LAMBDA q : q[2][2] > 0)
        p == [k \in 1..Len(kept) |->
                << (kept[k][1][1] * Unit) \div kept[k][2][2],
                   IF kept[k][2][1] > 0
                   THEN (kept[k][1][2] * Unit) \div kept[k][2][1]
                   ELSE FD_SUP * Unit >>]
    IN simplify_domain(p)

\* The domain the second propagator of times(v1, v2, prod) gives v1 in one
\* step from integer domains: intersection(dom_divby(prod, v2), v1), in
\* units of 1 / Unit.
times_v1_dom(v1, v2, prod) ==
    domain_intersection(dom_divby(prod, v2), ScaleDom(v1))

\* ------------------------------------------------------------------ FDVar
\* new FDVar(dom, step): dom || [[0, FD_SUP]], step || 0.
FDVar(dom, step) == [dom |-> dom, step |-> step]

DefaultDom == << <<0, FD_SUP>> >>

\* FDVar.prototype.is_undetermined
is_undetermined(v) == Len(v.dom) > 1 \/ v.dom[1][1] < v.dom[1][2]

\* FDVar.prototype.set_dom on the heap h (a sequence of FDVar objects).
set_dom(h, ref, d) ==
    IF ~domain_equal(h[ref].dom, d)
    THEN [h EXCEPT ![ref] = [dom |-> d, step |-> h[ref].step + 1]]
    ELSE h

\* FDVar.prototype.size / min / max / mid
var_size(v) ==
    LET RECURSIVE Sum(_)
        Sum(i) == IF i > Len(v.dom) THEN 0
                  ELSE (v.dom[i][2] - v.dom[i][1] + 1) + Sum(i + 1)
    IN Sum(1)

var_min(v) == v.dom[1][1]

var_max(v) == v.dom[Len(v.dom)][2]

RECURSIVE MidLoop(_, _, _)
MidLoop(dom, domIx, midIx) ==
    IF midIx > dom[domIx][2] - dom[domIx][1]
    THEN MidLoop(dom, domIx + 1, midIx - (dom[domIx][2] - dom[domIx][1] + 1))
    ELSE dom[domIx][1] + midIx

var_mid(v) == MidLoop(v.dom, 1, var_size(v) \div 2)

\* A constrain that replaces the domain by d where it should intersect.
constrain_replace(h, ref, d) ==
    IF Len(domain_intersection(h[ref].dom, d)) = 0 THEN [h |-> h, fail |-> TRUE]
    ELSE [h |-> set_dom(h, ref, d), fail |-> FALSE]

\* FDVar.prototype.constrain: [h, fail]; fail when the intersection is empty.
constrain(h, ref, d) ==
    LET nd == domain_intersection(h[ref].dom, d)
    IN IF Len(nd) = 0 THEN [h |-> h, fail |-> TRUE]
       ELSE [h |-> set_dom(h, ref, nd), fail |-> FALSE]

\* -------------------------------------------------------------- propagators
\* A propagator object.  kind names its step function; space holds the FDVar
\* objects bound by initprop (p.space[1..]); p and np are the lazily created
\* sub-propagators of a reified propagator (empty until its first step).
Prop(kind, allvars, space, factor, op) ==
    [kind |-> kind, allvars |-> allvars, space |-> space, last_step |-> -1,
     solved |-> FALSE, factor |-> factor, op |-> op, p |-> <<>>, np |-> <<>>]

\* What a step leaves behind: the heap, the propagator object, the returned
\* count, and whether it threw 'fail' (h and p then hold what was written
\* before the throw).
Ret(h, p, n) == [h |-> h, p |-> p, ret |-> n, fail |-> FALSE]

Thrown(h, p) == [h |-> h, p |-> p, ret |-> 0, fail |-> TRUE]

StepSum(h, refs) ==
    LET RECURSIVE Sum(_)
        Sum(i) == IF i > Len(refs) THEN 0 ELSE h[refs[i]].step + Sum(i + 1)
    IN Sum(1)

\* propagator_is_solved(S, p): S.vars maps names to FDVar objects.
propagator_is_solved(h, S, p) ==
    \/ p.solved
    \/ \A i \in 1..Len(p.allvars) : ~is_undetermined(h[S.vars[p.allvars[i]]])

\* A faulty eq step, which narrows nothing.
eq_step_skip(h, p) == Ret(h, p, 0)

\* Space.prototype.eq: step
eq_step(h, p) ==
    LET v1 == p.space[1]
        v2 == p.space[2]
        nextStep == h[v1].step + h[v2].step
    IN IF nextStep > p.last_step
       THEN LET d == domain_intersection(h[v1].dom, h[v2].dom)
            IN IF Len(d) = 0 THEN Thrown(h, p)
               ELSE LET h2 == set_dom(set_dom(h, v1, d), v2, d)
                        ls == h2[v1].step + h2[v2].step
                    IN Ret(h2, [p EXCEPT !.last_step = ls], ls - nextStep)
       ELSE Ret(h, p, 0)

\* The do-while loop of the lt (k = 1) and lte (k = 0) steps.
RECURSIVE lt_loop(_, _, _)
lt_loop(h, p, k) ==
    LET v1 == p.space[1]
        v2 == p.space[2]
        b1 == <<var_min(h[v1]), var_max(h[v1])>>
        b2 == <<var_min(h[v2]), var_max(h[v2])>>
    IN With([p EXCEPT !.last_step = h[v1].step + h[v2].step], LAMBDA p1 :
       With(IF b2[2] - k < b1[2]
            THEN constrain(h, v1, << <<b1[1], b2[2] - k>> >>)
            ELSE [h |-> h, fail |-> FALSE], LAMBDA c1 :
       IF c1.fail THEN Thrown(h, p1) ELSE
       With(IF b1[1] + k > b2[1]
            THEN constrain(c1.h, v2, << <<b1[1] + k, b2[2]>> >>)
            ELSE [h |-> c1.h, fail |-> FALSE], LAMBDA c2 :
       IF c2.fail THEN Thrown(c1.h, p1)
       ELSE IF c2.h[v1].step + c2.h[v2].step > p1.last_step
       THEN lt_loop(c2.h, p1, k)
       ELSE Ret(c2.h, p1, 0))))

\* Space.prototype.lt: step (k = 1); Space.prototype.lte: step (k = 0).
cmp_step(h, p, k) ==
    LET v1 == p.space[1]
        v2 == p.space[2]
        nextStep == h[v1].step + h[v2].step
    IN IF nextStep > p.last_step
       THEN IF var_min(h[v2]) + (1 - k) > var_max(h[v1])
            THEN Ret(h, [p EXCEPT !.last_step = nextStep, !.solved = TRUE], 0)
            ELSE With(lt_loop(h, [p EXCEPT !.last_step = nextStep], k), LAMBDA r :
                 IF r.fail THEN r
                 ELSE With(r.h[v1].step + r.h[v2].step, LAMBDA ls :
                      Ret(r.h, [r.p EXCEPT !.last_step = ls], ls - nextStep)))
       ELSE Ret(h, p, 0)

\* A step for lt that lets x = y pass.
lt_step_lte(h, p) == cmp_step(h, p, 0)

lt_step(h, p) == cmp_step(h, p, 1)

lte_step(h, p) == cmp_step(h, p, 0)

\* The do-while loop of the neq step.
RECURSIVE neq_loop(_, _)
neq_loop(h, p) ==
    LET v1 == p.space[1]
        v2 == p.space[2]
        b1 == <<var_min(h[v1]), var_max(h[v1])>>
        b2 == <<var_min(h[v2]), var_max(h[v2])>>
    IN With([p EXCEPT !.last_step = h[v1].step + h[v2].step], LAMBDA p1 :
       With(IF b1[1] = b1[2]
            THEN constrain(h, v2, domain_complement(<<b1>>))
            ELSE [h |-> h, fail |-> FALSE], LAMBDA c1 :
       IF c1.fail THEN Thrown(h, p1) ELSE
       With(IF b2[1] = b2[2]
            THEN constrain(c1.h, v1, domain_complement(<<b2>>))
            ELSE [h |-> c1.h, fail |-> FALSE], LAMBDA c2 :
       IF c2.fail THEN Thrown(c1.h, p1)
       ELSE IF c2.h[v1].step + c2.h[v2].step > p1.last_step
       THEN neq_loop(c2.h, p1)
       ELSE Ret(c2.h, p1, 0))))

\* A faulty neq step, which narrows nothing.
neq_step_skip(h, p) == Ret(h, p, 0)

\* Space.prototype.neq: step
neq_step(h, p) ==
    LET v1 == p.space[1]
        v2 == p.space[2]
        nextStep == h[v1].step + h[v2].step
    IN IF nextStep > p.last_step
       THEN IF var_min(h[v2]) > var_max(h[v1]) \/ var_max(h[v1]) < var_min(h[v2])
            THEN Ret(h, [p EXCEPT !.last_step = nextStep, !.solved = TRUE], 0)
            ELSE IF Len(domain_intersection(h[v1].dom, h[v2].dom)) = 0
            THEN Ret(h, [p EXCEPT !.last_step = nextStep, !.solved = TRUE], 0)
            ELSE With(neq_loop(h, [p EXCEPT !.last_step = nextStep]), LAMBDA r :
                 IF r.fail THEN r
                 ELSE With(r.h[v1].step + r.h[v2].step, LAMBDA ls :
                      Ret(r.h, [r.p EXCEPT !.last_step = ls], ls - nextStep)))
       ELSE Ret(h, p, 0)

\* ring(plusop, minusop, ...): the three steps, for (dom_plus, dom_minus).
\* Each narrows the variable at index target of p.space by the domain d.
ring_step(h, p, target, d) ==
    LET refs == p.space
        nextStep == StepSum(h, refs)
    IN IF nextStep > p.last_step
       THEN LET nd == domain_intersection(d, h[refs[target]].dom)
            IN IF Len(nd) = 0 THEN Thrown(h, p)
               ELSE LET h2 == set_dom(h, refs[target], nd)
                        ls == StepSum(h2, refs)
                    IN Ret(h2, [p EXCEPT !.last_step = ls], ls - nextStep)
       ELSE Ret(h, p, p.last_step - nextStep)

plus_sum_step(h, p) ==
    ring_step(h, p, 3, dom_plus(h[p.space[1]].dom, h[p.space[2]].dom))

plus_v1_step(h, p) ==
    ring_step(h, p, 1, dom_minus(h[p.space[3]].dom, h[p.space[2]].dom))

plus_v2_step(h, p) ==
    ring_step(h, p, 2, dom_minus(h[p.space[3]].dom, h[p.space[1]].dom))

\* Space.prototype.scale: the step of its first propagator (prod from v).
scale_prod_step(h, p) ==
    LET v == p.space[1]
        prod == p.space[2]
        nextStep == h[v].step + h[prod].step
        kd == [i \in 1..Len(h[v].dom) |->
                << Min2(FD_SUP, h[v].dom[i][1] * p.factor),
                   Min2(FD_SUP, h[v].dom[i][2] * p.factor) >>]
    IN IF nextStep > p.last_step
       THEN LET nd == domain_intersection(kd, h[prod].dom)
            IN IF Len(nd) = 0 THEN Thrown(h, p)
               ELSE LET h2 == set_dom(h, prod, nd)
                        ls == h2[v].step + h2[prod].step
                    IN Ret(h2, [p EXCEPT !.last_step = ls], ls - nextStep)
       ELSE Ret(h, p, 0)

\* Space.prototype.scale: the step of its second propagator (v from prod).
scale_v_step(h, p) ==
    LET v == p.space[1]
        prod == p.space[2]
        nextStep == h[v].step + h[prod].step
        dbyk == simplify_domain([i \in 1..Len(h[prod].dom) |->
                    << h[prod].dom[i][1] \div p.factor,
                       h[prod].dom[i][2] \div p.factor >>])
    IN IF nextStep > p.last_step
       THEN LET nd == domain_intersection(dbyk, h[v].dom)
            IN IF Len(nd) = 0 THEN Thrown(h, p)
               ELSE LET h2 == set_dom(h, v, nd)
                        ls == h2[v].step + h2[prod].step
                    IN Ret(h2, [p EXCEPT !.last_step = ls], ls - nextStep)
       ELSE Ret(h, p, 0)

\* The step function of a comparison propagator (the ones reified can wrap).
simple_step(h, p) ==
    CASE p.kind = "eq"  -> eq_step(h, p)
      [] p.kind = "neq" -> neq_step(h, p)
      [] p.kind = "lt"  -> lt_step(h, p)
      [] p.kind = "lte" -> lte_step(h, p)

\* ---------------------------------------------------------------- reified
\* A faulty table, which gives every operator as its own complement.
complementary_operator_same(op) == op

\* Propagator.complementary_operator
complementary_operator(op) ==
    CASE op = "eq" -> "neq" [] op = "neq" -> "eq" [] op = "lt" -> "gte"
      [] op = "gt" -> "lte" [] op = "lte" -> "gt" [] op = "gte" -> "lt"

ReifiableOps == {"eq", "neq", "lt", "lte", "gt", "gte"}

\* The propagator that this[opname].apply(this, argv) posts: gt(x, y) is
\* lt(y, x) and gte(x, y) is lte(y, x).
OpKind(op) ==
    CASE op \in {"lt", "gt"} -> "lt" [] op \in {"lte", "gte"} -> "lte"
      [] OTHER -> op

OpArgs(op, argv) == IF op \in {"gt", "gte"} THEN <<argv[2], argv[1]>> ELSE argv

\* S.initprop({allvars: ..., step: ...}) for the propagator of op on argv.
InitSub(S, op, argv) ==
    LET names == OpArgs(op, argv)
    IN Prop(OpKind(op), names, <<S.vars[names[1]], S.vars[names[2]]>>, 0, "")

\* A faulty restore_vars, which puts the domains back and resets the
\* revisions to 0.
restore_vars_reset(saved, h, P, savedLast) ==
    [h |-> [r \in DOMAIN h |->
                IF \E i \in 1..Len(P.space) : P.space[i] = r
                THEN FDVar(saved[r].dom, 0) ELSE h[r]],
     p |-> [P EXCEPT !.last_step = savedLast]]

\* Propagator.restore_vars(P): the saved dom and step of P.space[1..] and the
\* saved last_step are put back (saved holds the heap at save_vars time).
restore_vars(saved, h, P, savedLast) ==
    [h |-> [r \in DOMAIN h |->
                IF \E i \in 1..Len(P.space) : P.space[i] = r THEN saved[r] ELSE h[r]],
     p |-> [P EXCEPT !.last_step = savedLast]]

\* A faulty speculative step, which restores the variables only when the
\* step failed.
Speculate_kept(h, sub) ==
    With(simple_step(h, sub), LAMBDA r :
    IF r.fail
    THEN With(restore_vars(h, r.h, r.p, sub.last_step), LAMBDA back :
         [h |-> back.h, p |-> back.p, failed |-> TRUE])
    ELSE [h |-> r.h, p |-> r.p, failed |-> FALSE])

\* One speculative step of the sub-propagator sub: [h, p, failed].
Speculate(h, sub) ==
    With(simple_step(h, sub), LAMBDA r :
    With(restore_vars(h, r.h, r.p, sub.last_step), LAMBDA back :
    [h |-> back.h, p |-> back.p, failed |-> r.fail]))

\* The do-while loop of the reified step; P.p and P.np are instantiated.
RECURSIVE reified_loop(_, _, _)
reified_loop(h, S, P) ==
    LET refs == P.space
        b == refs[3]
        bdom == h[b].dom[1]
    IN With([P EXCEPT !.last_step = StepSum(h, refs)], LAMBDA P0 :
       \* if (bdom[0] === 1) { p.step(); this.solved = ... }
       With(IF bdom[1] = 1 THEN simple_step(h, P0.p[1]) ELSE Ret(h, P0.p[1], 0),
            LAMBDA r1 :
       IF r1.fail THEN Thrown(r1.h, [P0 EXCEPT !.p = <<r1.p>>]) ELSE
       With(IF bdom[1] = 1
            THEN [P0 EXCEPT !.p = <<r1.p>>,
                            !.solved = propagator_is_solved(r1.h, S, r1.p)]
            ELSE P0, LAMBDA P1 :
       \* if (bdom[1] === 0) { np.step(); this.solved = ... }
       With(IF bdom[2] = 0 THEN simple_step(r1.h, P1.np[1]) ELSE Ret(r1.h, P1.np[1], 0),
            LAMBDA r2 :
       IF r2.fail THEN Thrown(r2.h, [P1 EXCEPT !.np = <<r2.p>>]) ELSE
       With(IF bdom[2] = 0
            THEN [P1 EXCEPT !.np = <<r2.p>>,
                            !.solved = propagator_is_solved(r2.h, S, r2.p)]
            ELSE P1, LAMBDA P2 :
       \* if (bdom[0] < bdom[1]) speculate p; on failure b.constrain([[0, 0]])
       With(IF bdom[1] < bdom[2] THEN Speculate(r2.h, P2.p[1])
            ELSE [h |-> r2.h, p |-> P2.p[1], failed |-> FALSE], LAMBDA s3 :
       With(IF s3.failed THEN constrain(s3.h, b, << <<0, 0>> >>)
            ELSE [h |-> s3.h, fail |-> FALSE], LAMBDA c3 :
       IF c3.fail THEN Thrown(c3.h, [P2 EXCEPT !.p = <<s3.p>>]) ELSE
       \* bdom = b.dom[0], read again inside the third if
       With(IF bdom[1] < bdom[2] THEN c3.h[b].dom[1] ELSE bdom, LAMBDA bdom3 :
       \* if (bdom[0] < bdom[1]) speculate np; on failure b.constrain([[1, 1]])
       With(IF bdom3[1] < bdom3[2] THEN Speculate(c3.h, P2.np[1])
            ELSE [h |-> c3.h, p |-> P2.np[1], failed |-> FALSE], LAMBDA s4 :
       With(IF s4.failed THEN constrain(s4.h, b, << <<1, 1>> >>)
            ELSE [h |-> s4.h, fail |-> FALSE], LAMBDA c4 :
       With([P2 EXCEPT !.p = <<s3.p>>, !.np = <<s4.p>>], LAMBDA P4 :
       IF c4.fail THEN Thrown(c4.h, P4)
       ELSE IF StepSum(c4.h, refs) > P4.last_step THEN reified_loop(c4.h, S, P4)
       ELSE Ret(c4.h, P4, 0))))))))))))

\* Space.prototype.reified: step
reified_step(h, S, P) ==
    LET refs == P.space
        nextStep == StepSum(h, refs)
        argv == <<P.allvars[1], P.allvars[2]>>
    IN IF nextStep > P.last_step
       THEN With(reified_loop(h, S, [P EXCEPT
                    !.p = IF P.p = <<>> THEN <<InitSub(S, P.op, argv)>> ELSE P.p,
                    !.np = IF P.np = <<>>
                           THEN <<InitSub(S, complementary_operator(P.op), argv)>>
                           ELSE P.np]), LAMBDA r :
            IF r.fail THEN r
            ELSE With(StepSum(r.h, refs), LAMBDA ls :
                 Ret(r.h, [r.p EXCEPT !.last_step = ls], ls - nextStep)))
       ELSE Ret(h, P, 0)

\* ps[i].step(): the step function of the propagator p of space S.
step(h, S, p) ==
    CASE p.kind \in {"eq", "neq", "lt", "lte"} -> simple_step(h, p)
      [] p.kind = "plus_sum"   -> plus_sum_step(h, p)
      [] p.kind = "plus_v1"    -> plus_v1_step(h, p)
      [] p.kind = "plus_v2"    -> plus_v2_step(h, p)
      [] p.kind = "scale_prod" -> scale_prod_step(h, p)
      [] p.kind = "scale_v"    -> scale_v_step(h, p)
      [] p.kind = "reified"    -> reified_step(h, S, p)

\* ------------------------------------------------------------------- Space
\* The world the API works on: the FDVar heap, the spaces (a space's id is
\* its index), the brancher queues (shared by reference between a space and
\* its clones), the class-global Space._temp_count, and whether a call of the
\* script threw (a usage error, or 'fail' from a constrain while posting).
World(h, sp, qs, tc) ==
    [fdvars |-> h, spaces |-> sp, queues |-> qs, temp_count |-> tc, error |-> FALSE]

\* A temporary's name: the number t used as an object key (its decimal string).
Digits == <<"0", "1", "2", "3", "4", "5", "6", "7", "8", "9">>

TempName(t) == IF t < 10 THEN Digits[t + 1] ELSE Digits[(t \div 10) + 1] \o Digits[(t % 10) + 1]

\* /^[0-9]+$/.test(name)
IsTempName(name) == \E t \in 0..99 : name = TempName(t)

UserNames == <<"X", "Y", "Z", "A", "B">>

\* for (i in S.vars): integer keys in ascending order, then the string keys.
NameOrder == [t \in 1..99 |-> TempName(t)] \o UserNames

KeysOf(f) == SelectSeq(NameOrder, LAMBDA n : n \in DOMAIN f)

\* The omitted dom argument of decl / temp.
NoDom == << <<-1, -1>> >>

\* new Space() without an argument, its Brancher owning a fresh queue.
NewSpace(queue) ==
    [vars |-> <<>>, propagators |-> <<>>, queue |-> queue, next_brancher |-> 0,
     commit |-> <<>>, clone_of |-> 0, succeeded_children |-> 0,
     failed_children |-> 0, stable_children |-> 0, failed |-> FALSE]

\* A decl that constrains an existing variable to dom, where the source
\* sets its domain.
decl_constrain(W, sid, name, dom) ==
    LET S == W.spaces[sid]
    IN IF name \in DOMAIN S.vars
       THEN IF dom # NoDom
            THEN [W EXCEPT !.fdvars = set_dom(W.fdvars, S.vars[name],
                                  domain_intersection(W.fdvars[S.vars[name]].dom, dom))]
            ELSE W
       ELSE LET ref == Len(W.fdvars) + 1
                v == FDVar(IF dom = NoDom THEN DefaultDom ELSE dom, 0)
            IN [W EXCEPT !.fdvars = Append(W.fdvars, v),
                         !.spaces[sid].vars = (name :> ref) @@ S.vars]

\* Space.prototype.decl for a single name.
decl(W, sid, name, dom) ==
    LET S == W.spaces[sid]
    IN IF name \in DOMAIN S.vars
       THEN IF dom # NoDom
            THEN [W EXCEPT !.fdvars = set_dom(W.fdvars, S.vars[name], dom)]
            ELSE W
       ELSE LET ref == Len(W.fdvars) + 1
                v == FDVar(IF dom = NoDom THEN DefaultDom ELSE dom, 0)
            IN [W EXCEPT !.fdvars = Append(W.fdvars, v),
                         !.spaces[sid].vars = (name :> ref) @@ S.vars]

\* Space.prototype.decl for an array of names.
RECURSIVE decl_all(_, _, _, _)
decl_all(W, sid, names, dom) ==
    IF names = <<>> THEN W
    ELSE decl_all(decl(W, sid, names[1], dom), sid, Tail(names), dom)

\* Space.prototype.num
num(W, sid, name, n) == decl(W, sid, name, << <<n, n>> >>)

\* Space.prototype.temp: the new name is TempName(W.temp_count + 1).
temp(W, sid, dom) ==
    decl([W EXCEPT !.temp_count = W.temp_count + 1], sid, TempName(W.temp_count + 1), dom)

\* Space.prototype.konst
konst(W, sid, val) ==
    IF val < 0 \/ val > FD_SUP THEN [W EXCEPT !.error = TRUE]
    ELSE temp(W, sid, << <<val, val>> >>)

\* Space.prototype.initprop + newprop: binds the FDVar objects of the names.
newprop(W, sid, kind, allvars, factor, op) ==
    LET S == W.spaces[sid]
        refs == [i \in 1..Len(allvars) |-> S.vars[allvars[i]]]
    IN [W EXCEPT !.spaces[sid].propagators = Append(@, Prop(kind, allvars, refs, factor, op))]

eq(W, sid, v1name, v2name) == newprop(W, sid, "eq", <<v1name, v2name>>, 0, "")

lt(W, sid, v1name, v2name) == newprop(W, sid, "lt", <<v1name, v2name>>, 0, "")

gt(W, sid, v1name, v2name) == lt(W, sid, v2name, v1name)

lte(W, sid, v1name, v2name) == newprop(W, sid, "lte", <<v1name, v2name>>, 0, "")

gte(W, sid, v1name, v2name) == lte(W, sid, v2name, v1name)

neq(W, sid, v1name, v2name) == newprop(W, sid, "neq", <<v1name, v2name>>, 0, "")

\* Space.prototype.distinct: neq(vars[i], vars[j]) for j < i.
RECURSIVE distinct_from(_, _, _, _, _)
distinct_from(W, sid, names, i, j) ==
    IF i > Len(names) THEN W
    ELSE IF j >= i THEN distinct_from(W, sid, names, i + 1, 1)
    ELSE distinct_from(neq(W, sid, names[i], names[j]), sid, names, i, j + 1)

distinct(W, sid, names) == distinct_from(W, sid, names, 1, 1)

\* Space.prototype.plus = ring(dom_plus, dom_minus, ...) with sumname given.
plus(W, sid, v1name, v2name, sumname) ==
    LET names == <<v1name, v2name, sumname>>
    IN newprop(newprop(newprop(W, sid, "plus_sum", names, 0, ""),
                       sid, "plus_v1", names, 0, ""),
               sid, "plus_v2", names, 0, "")

\* Space.prototype.scale with prodname given.
scale(W, sid, factor, vname, prodname) ==
    IF factor = 1 THEN eq(W, sid, vname, prodname)
    ELSE IF factor = 0
    THEN eq(temp(W, sid, << <<0, 0>> >>), sid, TempName(W.temp_count + 1), prodname)
    ELSE IF factor < 0 THEN [W EXCEPT !.error = TRUE]
    ELSE newprop(newprop(W, sid, "scale_prod", <<vname, prodname>>, factor, ""),
                 sid, "scale_v", <<vname, prodname>>, factor, "")

\* Space.prototype.sum with resultName given.
RECURSIVE sum(_, _, _, _)
sum(W, sid, names, resultName) ==
    CASE resultName = "" ->
            sum(temp(W, sid, NoDom), sid, names, TempName(W.temp_count + 1))
      [] Len(names) = 0 -> [W EXCEPT !.error = TRUE]
      [] Len(names) = 1 -> eq(W, sid, names[1], resultName)
      [] Len(names) = 2 -> plus(W, sid, names[1], names[2], resultName)
      [] OTHER ->
            LET n == Len(names) \div 2
                t2 == TempName(W.temp_count + 1)
                W1 == sum(temp(W, sid, NoDom), sid, SubSeq(names, n + 1, Len(names)), t2)
                t1 == IF n > 1 THEN TempName(W1.temp_count + 1) ELSE names[1]
                W2 == IF n > 1
                      THEN sum(temp(W1, sid, NoDom), sid, SubSeq(names, 1, n), t1)
                      ELSE W1
            IN plus(W2, sid, t1, t2, resultName)

\* Space.prototype.wsum: the loop that scales each variable into a temporary.
RECURSIVE wsum_loop(_, _, _, _, _, _)
wsum_loop(W, sid, kweights, names, temps, resultName) ==
    IF Len(temps) = Len(names) THEN sum(W, sid, temps, resultName)
    ELSE LET i == Len(temps) + 1
             t == TempName(W.temp_count + 1)
         IN wsum_loop(scale(temp(W, sid, NoDom), sid, kweights[i], names[i], t),
                      sid, kweights, names, Append(temps, t), resultName)

wsum(W, sid, kweights, names, resultName) ==
    wsum_loop(W, sid, kweights, names, <<>>, resultName)

\* Space.prototype.reified with boolname given: the positive and the negative
\* propagator are posted and popped again, then the reified one is posted.
reified(W, sid, opname, argv, boolname) ==
    IF opname \in ReifiableOps
    THEN LET c == constrain(W.fdvars, W.spaces[sid].vars[boolname], << <<0, 1>> >>)
         IN IF c.fail THEN [W EXCEPT !.error = TRUE]
            ELSE newprop([W EXCEPT !.fdvars = c.h], sid, "reified",
                         <<argv[1], argv[2], boolname>>, 0, opname)
    ELSE [W EXCEPT !.error = TRUE]

\* Distribute.generic: S.brancher.enqueue(branch_sequence).
distribute_generic(W, sid, varnames, spec) ==
    [W EXCEPT !.queues[W.spaces[sid].queue] =
        Append(@, [varnames |-> varnames, filter |-> spec.filter,
                   ordering |-> spec.ordering, value |-> spec.value])]

distribute_naive(W, sid, varnames) ==
    distribute_generic(W, sid, varnames,
        [filter |-> "undet", ordering |-> "naive", value |-> "min"])

distribute_fail_first(W, sid, varnames) ==
    distribute_generic(W, sid, varnames,
        [filter |-> "undet", ordering |-> "size", value |-> "min"])

distribute_split(W, sid, varnames) ==
    distribute_generic(W, sid, varnames,
        [filter |-> "undet", ordering |-> "size", value |-> "splitMin"])

\* new Space(S): the clone of space sid gets id Len(W.spaces) + 1.
\* The loop that copies the FDVar objects.
\* A faulty copy of the variables: the clone gets the parent's FDVar objects.
CloneVars_shared(h, S, keys, out) == [h |-> h, vars |-> S.vars]

RECURSIVE CloneVars(_, _, _, _)
CloneVars(h, S, keys, out) ==
    IF keys = <<>> THEN [h |-> h, vars |-> out]
    ELSE LET v == h[S.vars[keys[1]]]
         IN CloneVars(Append(h, FDVar(v.dom, v.step)), S, Tail(keys),
                      (keys[1] :> (Len(h) + 1)) @@ out)

\* The loop that rebuilds the propagators that are not solved.
\* A faulty rebuild, which leaves the propagators bound to the parent's
\* variables.
RECURSIVE CloneProps_borrowed(_, _, _, _, _)
CloneProps_borrowed(h, S, newvars, i, out) ==
    IF i > Len(S.propagators) THEN out
    ELSE LET p == S.propagators[i]
         IN CloneProps_borrowed(h, S, newvars, i + 1,
                IF propagator_is_solved(h, S, p) THEN out
                ELSE Append(out, Prop(p.kind, p.allvars, p.space, p.factor, p.op)))

RECURSIVE CloneProps(_, _, _, _, _)
CloneProps(h, S, newvars, i, out) ==
    IF i > Len(S.propagators) THEN out
    ELSE LET p == S.propagators[i]
         IN CloneProps(h, S, newvars, i + 1,
                IF propagator_is_solved(h, S, p) THEN out
                ELSE Append(out, Prop(p.kind, p.allvars,
                                [k \in 1..Len(p.allvars) |-> newvars[p.allvars[k]]],
                                p.factor, p.op)))

\* A faulty clone, whose brancher starts one strategy further than its
\* parent's.
clone_incremented(W, sid) ==
    LET S == W.spaces[sid]
        cv == CloneVars(W.fdvars, S, KeysOf(S.vars), <<>>)
        C == [vars |-> cv.vars,
              propagators |-> CloneProps(W.fdvars, S, cv.vars, 1, <<>>),
              queue |-> S.queue, next_brancher |-> S.next_brancher + 1,
              commit |-> <<>>, clone_of |-> sid, succeeded_children |-> 0,
              failed_children |-> 0, stable_children |-> 0, failed |-> FALSE]
    IN [W EXCEPT !.fdvars = cv.h, !.spaces = Append(@, C)]

clone(W, sid) ==
    LET S == W.spaces[sid]
        cv == CloneVars(W.fdvars, S, KeysOf(S.vars), <<>>)
        C == [vars |-> cv.vars,
              propagators |-> CloneProps(W.fdvars, S, cv.vars, 1, <<>>),
              queue |-> S.queue, next_brancher |-> S.next_brancher,
              commit |-> <<>>, clone_of |-> sid, succeeded_children |-> 0,
              failed_children |-> 0, stable_children |-> 0, failed |-> FALSE]
    IN [W EXCEPT !.fdvars = cv.h, !.spaces = Append(@, C)]

\* Space.prototype.done
done(sp, sid) ==
    LET S == sp[sid]
        par == S.clone_of
    IN IF par # 0
       THEN [sp EXCEPT
                ![par].succeeded_children = @ + S.succeeded_children,
                ![par].failed_children =
                    @ + S.failed_children + (IF S.failed THEN 1 ELSE 0),
                ![par].stable_children = @ + S.stable_children,
                ![sid].failed =
                    IF S.succeeded_children = 0 /\ S.failed_children > 0 THEN TRUE ELSE @]
       ELSE sp

\* A faulty pass, which steps the next propagator after one has thrown.
RECURSIVE PassFrom_on(_, _, _, _, _)
PassFrom_on(h, S, ps, i, count) ==
    IF i > Len(ps) THEN [h |-> h, ps |-> ps, count |-> count, fail |-> FALSE]
    ELSE With(step(h, S, ps[i]), LAMBDA r :
         IF r.fail
         THEN IF i < Len(ps)
              THEN With(step(r.h, S, ps[i + 1]), LAMBDA r2 :
                   [h |-> r2.h, ps |-> [ps EXCEPT ![i] = r.p, ![i + 1] = r2.p],
                    count |-> count, fail |-> TRUE])
              ELSE [h |-> r.h, ps |-> [ps EXCEPT ![i] = r.p], count |-> count,
                    fail |-> TRUE]
         ELSE PassFrom_on(r.h, S, [ps EXCEPT ![i] = r.p], i + 1, count + r.ret))

\* One pass of the for loop of Space.prototype.propagate over ps[i..]:
\* [h, ps, count, fail]; a throw leaves the later propagators unstepped.
RECURSIVE PassFrom(_, _, _, _, _)
PassFrom(h, S, ps, i, count) ==
    IF i > Len(ps) THEN [h |-> h, ps |-> ps, count |-> count, fail |-> FALSE]
    ELSE With(step(h, S, ps[i]), LAMBDA r :
         IF r.fail
         THEN [h |-> r.h, ps |-> [ps EXCEPT ![i] = r.p], count |-> count, fail |-> TRUE]
         ELSE PassFrom(r.h, S, [ps EXCEPT ![i] = r.p], i + 1, count + r.ret))

\* A faulty pass, which reports no change whatever its steps did.
propagate_pass_once(h, S) ==
    [PassFrom(h, S, S.propagators, 1, 0) EXCEPT !.count = 0]

\* A faulty pass, which reports a change whatever its steps did.
propagate_pass_restless(h, S) ==
    [PassFrom(h, S, S.propagators, 1, 0) EXCEPT !.count = @ + 1]

propagate_pass(h, S) == PassFrom(h, S, S.propagators, 1, 0)

\* Space.prototype.propagate, the whole call: passes until one changes
\* nothing (count = 0) or a step throws.  [h, ps, fail]
RECURSIVE propagate(_, _)
propagate(h, S) ==
    With(propagate_pass(h, S), LAMBDA r :
    IF r.fail \/ r.count = 0 THEN [h |-> r.h, ps |-> r.ps, fail |-> r.fail]
    ELSE propagate(r.h, [S EXCEPT !.propagators = r.ps]))

\* Space.prototype.is_solved
is_solved(h, S) ==
    \A n \in DOMAIN S.vars :
        LET d == h[S.vars[n]].dom IN Len(d) = 1 /\ d[1][1] = d[1][2]

\* Search.solve_for_variables(varnames): the tester it returns (no varnames:
\* S.is_solved()).
solve_for_variables(varnames, h, S) ==
    IF varnames # <<>>
    THEN \A i \in 1..Len(varnames) :
            LET d == h[S.vars[varnames[i]]].dom IN Len(d) = 1 /\ d[1][1] = d[1][2]
    ELSE is_solved(h, S)

\* ------------------------------------------------------------ distribution
\* Distribute.generic.filters.undet
filter_undet(h, S, varnames) ==
    SelectSeq(varnames, LAMBDA n : is_undetermined(h[S.vars[n]]))

\* Distribute.generic.orderings
orderingfn(kind, h, S, v1, v2) ==
    CASE kind = "naive" -> TRUE
      [] kind = "size"  -> var_size(h[S.vars[v1]]) < var_size(h[S.vars[v2]])
      [] kind = "min"   -> var_min(h[S.vars[v1]]) < var_min(h[S.vars[v2]])
      [] kind = "max"   -> var_max(h[S.vars[v1]]) > var_max(h[S.vars[v2]])

\* select_by_order: the loop over vars[i..] with the current first.
RECURSIVE SelectLoop(_, _, _, _, _, _)
SelectLoop(kind, h, S, names, first, i) ==
    IF i > Len(names) THEN names[first]
    ELSE SelectLoop(kind, h, S, names,
            IF ~orderingfn(kind, h, S, names[first], names[i]) THEN i ELSE first, i + 1)

\* A selection that takes the first candidate whatever the ordering.
select_by_order_first(kind, h, S, names) == names[1]

select_by_order(kind, h, S, names) == SelectLoop(kind, h, S, names, 1, 2)

\* branch_sequence.branch: a choice function (the variable, the value
\* strategy, numChoices) in a one-element sequence, or <<>> for null.
strategy_branch(b, h, S) ==
    LET names == filter_undet(h, S, b.varnames)
    IN IF Len(names) > 0
       THEN << [v |-> select_by_order(b.ordering, h, S, names),
                value |-> b.value, numChoices |-> 2, nextChoice |-> 0] >>
       ELSE <<>>

\* branch() without the descend(): only the strategy at the cursor is asked.
brancher_branch_first(queue, next_brancher, h, S) ==
    [choice |-> IF next_brancher + 1 <= Len(queue)
                THEN strategy_branch(queue[next_brancher + 1], h, S)
                ELSE <<>>,
     next_brancher |-> next_brancher]

\* Brancher.prototype.branch with Brancher.prototype.descend:
\* [choice, next_brancher].
RECURSIVE brancher_branch(_, _, _, _)
brancher_branch(queue, next_brancher, h, S) ==
    LET ch == IF next_brancher + 1 <= Len(queue)
              THEN strategy_branch(queue[next_brancher + 1], h, S)
              ELSE <<>>
    IN IF ch = <<>> /\ next_brancher + 1 < Len(queue)
       THEN brancher_branch(queue, next_brancher + 1, h, S)
       ELSE [choice |-> ch, next_brancher |-> next_brancher]

\* options with splitMin's upper half starting at the middle value itself.
options_overlapping(value, h, ref, n) ==
    LET v == h[ref]
        lo == var_min(v)
        hi == var_max(v)
        m == (lo + hi) \div 2
        d == var_mid(v)
    IN CASE value = "min" ->
              constrain(h, ref, IF n = 0 THEN << <<lo, lo>> >> ELSE << <<lo + 1, hi>> >>)
         [] value = "max" ->
              constrain(h, ref, IF n = 0 THEN << <<hi, hi>> >> ELSE << <<lo, hi - 1>> >>)
         [] value = "mid" ->
              constrain(h, ref,
                  IF n = 0 THEN << <<d, d>> >>
                  ELSE IF d > lo THEN << <<lo, d - 1>>, <<d + 1, hi>> >>
                  ELSE << <<d + 1, hi>> >>)
         [] value = "splitMin" ->
              constrain(h, ref, IF n = 0 THEN << <<lo, m>> >> ELSE << <<m, hi>> >>)
         [] value = "splitMax" ->
              constrain(h, ref, IF n = 0 THEN << <<m + 1, hi>> >> ELSE << <<lo, m>> >>)

\* Distribute.generic.values: options(S, n) of the value strategy for the
\* variable with FDVar object ref: [h, fail]; n outside 0..1 throws an Error.
options(value, h, ref, n) ==
    LET v == h[ref]
        lo == var_min(v)
        hi == var_max(v)
        m == (lo + hi) \div 2
        d == var_mid(v)
    IN CASE value = "min" ->
              constrain(h, ref, IF n = 0 THEN << <<lo, lo>> >> ELSE << <<lo + 1, hi>> >>)
         [] value = "max" ->
              constrain(h, ref, IF n = 0 THEN << <<hi, hi>> >> ELSE << <<lo, hi - 1>> >>)
         [] value = "mid" ->
              constrain(h, ref,
                  IF n = 0 THEN << <<d, d>> >>
                  ELSE IF d > lo THEN << <<lo, d - 1>>, <<d + 1, hi>> >>
                  ELSE << <<d + 1, hi>> >>)
         [] value = "splitMin" ->
              constrain(h, ref, IF n = 0 THEN << <<lo, m>> >> ELSE << <<m + 1, hi>> >>)
         [] value = "splitMax" ->
              constrain(h, ref, IF n = 0 THEN << <<m + 1, hi>> >> ELSE << <<lo, m>> >>)

\* next_choice that passes over an index: nextChoice += 2 after a commit.
next_choice_skipping(W, sid) ==
    With(W.spaces[sid], LAMBDA S :
    With(IF S.commit = <<>>
         THEN With(brancher_branch(W.queues[S.queue], S.next_brancher, W.fdvars, S),
                   LAMBDA br : [S EXCEPT !.commit = br.choice,
                                         !.next_brancher = br.next_brancher])
         ELSE S, LAMBDA S1 :
    IF S1.commit # <<>> /\ S1.commit[1].nextChoice < S1.commit[1].numChoices
    THEN With(clone([W EXCEPT !.spaces[sid] = S1], sid), LAMBDA W2 :
         With(S1.commit[1], LAMBDA ch :
         With(options(ch.value, W2.fdvars, W2.spaces[Len(W2.spaces)].vars[ch.v],
                      ch.nextChoice), LAMBDA c :
         [W |-> [W2 EXCEPT !.spaces[sid].commit[1].nextChoice = @ + 2,
                           !.fdvars = c.h],
          child |-> IF c.fail THEN 0 ELSE Len(W2.spaces), fail |-> c.fail])))
    ELSE [W |-> [W EXCEPT !.spaces[sid] = S1], child |-> 0, fail |-> FALSE]))

\* next_choice without the ++ of space.commit.nextChoice++.
next_choice_stuck(W, sid) ==
    With(W.spaces[sid], LAMBDA S :
    With(IF S.commit = <<>>
         THEN With(brancher_branch(W.queues[S.queue], S.next_brancher, W.fdvars, S),
                   LAMBDA br : [S EXCEPT !.commit = br.choice,
                                         !.next_brancher = br.next_brancher])
         ELSE S, LAMBDA S1 :
    IF S1.commit # <<>> /\ S1.commit[1].nextChoice < S1.commit[1].numChoices
    THEN With(clone([W EXCEPT !.spaces[sid] = S1], sid), LAMBDA W2 :
         With(S1.commit[1], LAMBDA ch :
         With(options(ch.value, W2.fdvars, W2.spaces[Len(W2.spaces)].vars[ch.v],
                      ch.nextChoice), LAMBDA c :
         [W |-> [W2 EXCEPT !.fdvars = c.h],
          child |-> IF c.fail THEN 0 ELSE Len(W2.spaces), fail |-> c.fail])))
    ELSE [W |-> [W EXCEPT !.spaces[sid] = S1], child |-> 0, fail |-> FALSE]))

\* next_choice(space, state): [W, child, fail]; child is the id of the
\* committed clone, 0 for null; fail when the commit threw.
next_choice(W, sid) ==
    With(W.spaces[sid], LAMBDA S :
    With(IF S.commit = <<>>
         THEN With(brancher_branch(W.queues[S.queue], S.next_brancher, W.fdvars, S),
                   LAMBDA br : [S EXCEPT !.commit = br.choice,
                                         !.next_brancher = br.next_brancher])
         ELSE S, LAMBDA S1 :
    IF S1.commit # <<>> /\ S1.commit[1].nextChoice < S1.commit[1].numChoices
    THEN With(clone([W EXCEPT !.spaces[sid] = S1], sid), LAMBDA W2 :
         With(S1.commit[1], LAMBDA ch :
         With(options(ch.value, W2.fdvars, W2.spaces[Len(W2.spaces)].vars[ch.v],
                      ch.nextChoice), LAMBDA c :
         [W |-> [W2 EXCEPT !.spaces[sid].commit[1].nextChoice = @ + 1,
                           !.fdvars = c.h],
          child |-> IF c.fail THEN 0 ELSE Len(W2.spaces), fail |-> c.fail])))
    ELSE [W |-> [W EXCEPT !.spaces[sid] = S1], child |-> 0, fail |-> FALSE]))

\* ----------------------------------------------------------------- scripts
\* A problem script: the declarations (name, dom), the constraints posted, in
\* order, and the distribution strategies enqueued, in order.
Con(c, a, k, op) == [c |-> c, a |-> a, k |-> k, op |-> op]

\* Posting one constraint of a script through the API.
Post(W, sid, con) ==
    CASE con.c = "eq"       -> eq(W, sid, con.a[1], con.a[2])
      [] con.c = "neq"      -> neq(W, sid, con.a[1], con.a[2])
      [] con.c = "lt"       -> lt(W, sid, con.a[1], con.a[2])
      [] con.c = "lte"      -> lte(W, sid, con.a[1], con.a[2])
      [] con.c = "gt"       -> gt(W, sid, con.a[1], con.a[2])
      [] con.c = "gte"      -> gte(W, sid, con.a[1], con.a[2])
      [] con.c = "distinct" -> distinct(W, sid, con.a)
      [] con.c = "plus"     -> plus(W, sid, con.a[1], con.a[2], con.a[3])
      [] con.c = "scale"    -> scale(W, sid, con.k[1], con.a[1], con.a[2])
      [] con.c = "sum"      -> sum(W, sid, SubSeq(con.a, 1, Len(con.a) - 1), con.a[Len(con.a)])
      [] con.c = "wsum"     -> wsum(W, sid, con.k, SubSeq(con.a, 1, Len(con.a) - 1),
                                    con.a[Len(con.a)])
      [] con.c = "reified"  -> reified(W, sid, con.op, <<con.a[1], con.a[2]>>, con.a[3])

Distribute(W, sid, d) ==
    CASE d.kind = "naive"      -> distribute_naive(W, sid, d.names)
      [] d.kind = "fail_first" -> distribute_fail_first(W, sid, d.names)
      [] d.kind = "split"      -> distribute_split(W, sid, d.names)
      [] OTHER                 -> distribute_generic(W, sid, d.names, d.spec)

RECURSIVE DeclSeq(_, _, _)
DeclSeq(W, sid, decls) ==
    IF decls = <<>> THEN W
    ELSE DeclSeq(decl(W, sid, decls[1][1], decls[1][2]), sid, Tail(decls))

RECURSIVE PostSeq(_, _, _)
PostSeq(W, sid, cons) ==
    IF cons = <<>> THEN W ELSE PostSeq(Post(W, sid, cons[1]), sid, Tail(cons))

RECURSIVE DistSeq(_, _, _)
DistSeq(W, sid, ds) ==
    IF ds = <<>> THEN W ELSE DistSeq(Distribute(W, sid, ds[1]), sid, Tail(ds))

\* The root space after S = new FD.space() and the script ran on it.
RunScript(sc) ==
    LET W0 == World(<<>>, <<NewSpace(1)>>, << <<>> >>, 1)
    IN DistSeq(PostSeq(DeclSeq(W0, 1, sc.decls), 1, sc.cons), 1, sc.dist)

\* ------------------------------------------------------------------- state
VARIABLES
    fdvars,      \* the heap of FDVar objects: ref -> [dom, step]
    spaces,      \* the Space objects: id -> space
    queues,      \* the brancher queues: ref -> sequence of strategies
    temp_count,  \* Space._temp_count
    state,       \* the search state object passed to and returned by a driver
    pc,          \* where the running driver call is: idle, propagate, stable
    passes,      \* passes the running propagate() call has completed
    script,      \* the script that built the root space
    found,       \* every space returned as 'solved', in order: [call, space, vars]
    lastop       \* the last call a caller made: [op, space, n], n counting the calls

vars == <<fdvars, spaces, queues, temp_count, state, pc, passes, script, found, lastop>>

TheWorld == [fdvars |-> fdvars, spaces |-> spaces, queues |-> queues,
             temp_count |-> temp_count, error |-> FALSE]

SetWorld(W) ==
    /\ fdvars' = W.fdvars
    /\ spaces' = W.spaces
    /\ queues' = W.queues
    /\ temp_count' = W.temp_count

\* The longest stack a driver may build in the model.
MaxDepth == 14

\* The bottom of the stack taken for its top.
Top_bottom == state.stack[1]

Top == state.stack[Len(state.stack)]

\* stack.pop() that leaves the stack as it is.
Pop_kept(stack) == stack

Pop(stack) == SubSeq(stack, 1, Len(stack) - 1)

\* The domains of the variables of space S (what S.solution() reads).
Snapshot(h, S) == [n \in DOMAIN S.vars |-> h[S.vars[n]].dom]

\* The record of the space sid being returned as solved by the running call.
Found(sid) == [call |-> lastop.n, space |-> sid, vars |-> Snapshot(fdvars, spaces[sid])]

\* The state object {space: S} a driver is first called with.
InitState(sc) ==
    [space |-> 1, stack |-> <<>>, status |-> "none", more |-> FALSE, best |-> 0,
     needs_constraining |-> FALSE, single_step |-> sc.single_step,
     solve_vars |-> sc.solve_vars]

InitWith(Scripts) ==
    \E sc \in Scripts : \E W \in {RunScript(sc)} :
        /\ fdvars = W.fdvars
        /\ spaces = W.spaces
        /\ queues = W.queues
        /\ temp_count = W.temp_count
        /\ state = InitState(sc)
        /\ pc = "idle"
        /\ passes = 0
        /\ script = sc
        /\ found = <<>>
        /\ lastop = [op |-> "new", space |-> 1, n |-> 0]

\* ------------------------------------------------------- Search.depth_first
\* The end of a driver's while loop with the given stack: the next iteration,
\* or the return after the loop (status 'end', more false).  st is the state
\* object as the loop body left it.
LoopOrEnd(st, stack) ==
    IF Len(stack) > 0
    THEN /\ state' = [st EXCEPT !.stack = stack]
         /\ pc' = "propagate"
    ELSE /\ state' = [st EXCEPT !.stack = stack, !.status = "end", !.more = FALSE]
         /\ pc' = "idle"

\* depth_first(state) is called: first, or again with the returned state.
DFCall ==
    /\ pc = "idle"
    /\ state.status = "none" \/ state.more
    /\ state' = [state EXCEPT !.stack = IF Len(@) = 0 THEN <<state.space>> ELSE @]
    /\ pc' = "propagate"
    /\ passes' = 0
    /\ lastop' = [op |-> "depth_first", space |-> state.space, n |-> lastop.n + 1]
    /\ UNCHANGED <<fdvars, spaces, queues, temp_count, script, found>>

\* space.propagate() on the top of the stack, one pass of its do-while loop;
\* a throw is caught by the driver: the space is failed and popped.
DFPropagate ==
    /\ pc = "propagate"
    /\ \E r \in {propagate_pass(fdvars, spaces[Top])} :
          /\ fdvars' = r.h
          /\ IF r.fail
             THEN /\ spaces' = done([spaces EXCEPT ![Top].propagators = r.ps,
                                                   ![Top].failed = TRUE], Top)
                  /\ LoopOrEnd(state, Pop(state.stack))
                  /\ passes' = 0
             ELSE /\ spaces' = [spaces EXCEPT ![Top].propagators = r.ps]
                  /\ pc' = IF r.count > 0 THEN "propagate" ELSE "stable"
                  /\ passes' = IF r.count > 0 THEN passes + 1 ELSE 0
                  /\ state' = state
    /\ UNCHANGED <<queues, temp_count, script, found, lastop>>

\* The stable space on top is solved: it is popped and returned.
DFSolved ==
    /\ pc = "stable"
    /\ solve_for_variables(state.solve_vars, fdvars, spaces[Top])
    /\ spaces' = done([spaces EXCEPT ![Top].succeeded_children = @ + 1], Top)
    /\ state' = [state EXCEPT !.stack = Pop(@), !.status = "solved", !.space = Top,
                              !.more = Len(state.stack) > 1]
    /\ pc' = "idle"
    /\ found' = Append(found, Found(Top))
    /\ UNCHANGED <<fdvars, queues, temp_count, passes, script, lastop>>

\* The stable space on top is not solved and next_choice gives a child: the
\* committed clone is pushed (a throw of the commit is caught like a failure).
DFBranch ==
    /\ pc = "stable"
    /\ ~solve_for_variables(state.solve_vars, fdvars, spaces[Top])
    /\ Len(state.stack) < MaxDepth
    /\ \E nc \in {next_choice(TheWorld, Top)} :
          /\ nc.child # 0 \/ nc.fail
          /\ IF nc.fail
             THEN /\ SetWorld([nc.W EXCEPT
                        !.spaces = done([nc.W.spaces EXCEPT ![Top].failed = TRUE], Top)])
                  /\ LoopOrEnd(state, Pop(state.stack))
             ELSE /\ SetWorld(nc.W)
                  /\ state' = [state EXCEPT !.stack = Append(@, nc.child)]
                  /\ pc' = "propagate"
    /\ UNCHANGED <<passes, script, found, lastop>>

\* The stable space on top is not solved and has no choice left: it is popped.
DFPop ==
    /\ pc = "stable"
    /\ ~solve_for_variables(state.solve_vars, fdvars, spaces[Top])
    /\ \E nc \in {next_choice(TheWorld, Top)} :
          /\ nc.child = 0 /\ ~nc.fail
          /\ SetWorld([nc.W EXCEPT
                !.spaces = done([nc.W.spaces EXCEPT ![Top].stable_children = @ + 1], Top)])
          /\ LoopOrEnd([state EXCEPT !.more = Len(state.stack) > 1], Pop(state.stack))
    /\ UNCHANGED <<passes, script, found, lastop>>

\* ------------------------------------------------------------ script families
Names3 == <<"X", "Y", "Z">>

Dist(kind, names) ==
    [kind |-> kind, names |-> names,
     spec |-> [filter |-> "undet", ordering |-> "naive", value |-> "min"]]

Doms3 ==
    { << <<0, FD_SUP>> >>, << <<0, 1>> >>, << <<FD_SUP - 1, FD_SUP>> >>,
      << <<1, FD_SUP - 1>> >>, << <<0, 0>>, <<FD_SUP - 1, FD_SUP>> >> }

DomsZ == { NoDom, << <<1, FD_SUP>> >>, << <<0, FD_SUP - 1>> >> }

Cons3 ==
    { << Con("plus", Names3, <<>>, "") >>,
      << Con("distinct", <<"X", "Y">>, <<>>, ""), Con("plus", Names3, <<>>, "") >>,
      << Con("lt", <<"X", "Y">>, <<>>, ""), Con("eq", <<"Y", "Z">>, <<>>, "") >>,
      << Con("lte", <<"X", "Y">>, <<>>, ""), Con("neq", <<"Y", "Z">>, <<>>, "") >>,
      << Con("gt", <<"X", "Y">>, <<>>, ""), Con("gte", <<"Z", "X">>, <<>>, "") >>,
      << Con("distinct", Names3, <<>>, "") >>,
      << Con("scale", <<"X", "Z">>, <<2>>, ""), Con("neq", <<"X", "Y">>, <<>>, "") >>,
      << Con("wsum", Names3, <<2, 1>>, "") >>,
      << Con("sum", <<"X", "Y", "X", "Z">>, <<>>, "") >> }

Dists3 ==
    { << Dist("naive", Names3) >>, << Dist("fail_first", Names3) >>,
      << Dist("split", Names3) >>,
      << Dist("naive", <<"X">>), Dist("split", <<"Y", "Z">>) >> }

ScriptsDF ==
    { [decls |-> << <<"X", dx>>, <<"Y", dy>>, <<"Z", dz>> >>, cons |-> cs, dist |-> ds,
       single_step |-> FALSE, solve_vars |-> <<>>] :
        dx \in Doms3, dy \in Doms3, dz \in DomsZ, cs \in Cons3, ds \in Dists3 }

\* ------------------------------------------- what the constraints mean
\* The relation a comparison operator names.
OpHolds(op, x, y) ==
    CASE op = "eq"  -> x = y
      [] op = "neq" -> x # y
      [] op = "lt"  -> x < y
      [] op = "lte" -> x <= y
      [] op = "gt"  -> x > y
      [] op = "gte" -> x >= y

\* k[1]*a[names[1]] + ... + k[n]*a[names[n]] for i = 1..n.
RECURSIVE WeightedSum(_, _, _, _)
WeightedSum(a, names, k, i) ==
    IF i > Len(names) THEN 0
    ELSE k[i] * a[names[i]] + WeightedSum(a, names, k, i + 1)

Ones(n) == [i \in 1..n |-> 1]

\* The assignment a of values to names satisfies the constraint con.
Holds(con, a) ==
    LET n == Len(con.a)
    IN CASE con.c \in ReifiableOps -> OpHolds(con.c, a[con.a[1]], a[con.a[2]])
         [] con.c = "distinct" ->
              \A i, j \in 1..n : i < j => a[con.a[i]] # a[con.a[j]]
         [] con.c = "plus"  -> a[con.a[1]] + a[con.a[2]] = a[con.a[3]]
         [] con.c = "scale" -> con.k[1] * a[con.a[1]] = a[con.a[2]]
         [] con.c = "sum"   ->
              WeightedSum(a, SubSeq(con.a, 1, n - 1), Ones(n - 1), 1) = a[con.a[n]]
         [] con.c = "wsum"  ->
              WeightedSum(a, SubSeq(con.a, 1, n - 1), con.k, 1) = a[con.a[n]]
         [] con.c = "reified" ->
              /\ a[con.a[3]] \in {0, 1}
              /\ a[con.a[3]] = 1 <=> OpHolds(con.op, a[con.a[1]], a[con.a[2]])

\* The names a script declares, and the domain it declares for each.
DeclNames(sc) == {sc.decls[i][1] : i \in 1..Len(sc.decls)}

DeclDom(sc, n) ==
    LET i == CHOOSE j \in 1..Len(sc.decls) : sc.decls[j][1] = n
    IN IF sc.decls[i][2] = NoDom THEN DefaultDom ELSE sc.decls[i][2]

\* Every assignment of values from the declared domains that satisfies all
\* the constraints the script posts.
Solutions(sc) ==
    {a \in [DeclNames(sc) -> 0..FD_SUP] :
        /\ \A n \in DeclNames(sc) : a[n] \in DomSet(DeclDom(sc, n))
        /\ \A i \in 1..Len(sc.cons) : Holds(sc.cons[i], a)}

\* A returned space in which every variable is determined, and the
\* assignment it then gives to the declared names.
Determined(snap) ==
    \A n \in DOMAIN snap : Len(snap[n]) = 1 /\ snap[n][1][1] = snap[n][1][2]

Values(sc, snap) == [n \in DeclNames(sc) |-> snap[n][1][1]]

\* The running driver call has returned, and no further call is due.
Exhausted == pc = "idle" /\ state.status # "none" /\ ~state.more

Init == InitWith(ScriptsDF)

Next == DFCall \/ DFPropagate \/ DFSolved \/ DFBranch \/ DFPop

Spec == Init /\ [][Next]_vars
\* --------------------------------------------------------- reified scripts
\* Scripts in the shape of test_reified_lt: reified(op, [X, Y], Z) for every
\* operator reified accepts, Z declared inside or across {0, 1}, searched by
\* depth_first.
DomsB == { NoDom, << <<0, 1>> >>, << <<0, 0>> >>, << <<1, 1>> >>, << <<1, FD_SUP>> >> }

DomsR == { << <<0, FD_SUP>> >>, << <<1, FD_SUP - 1>> >>, << <<0, 0>>, <<FD_SUP - 1, FD_SUP>> >> }

ScriptsReified ==
    { [decls |-> << <<"X", dx>>, <<"Y", dy>>, <<"Z", db>> >>,
       cons |-> << Con("reified", Names3, <<>>, op) >>, dist |-> << Dist(kind, names) >>,
       single_step |-> FALSE, solve_vars |-> <<>>] :
        dx \in DomsR, dy \in DomsR, db \in DomsB, op \in ReifiableOps,
        kind \in {"naive", "split"}, names \in {Names3, <<"Z", "Y", "X">>} }

InitReified == InitWith(ScriptsReified)

SpecReified == InitReified /\ [][Next]_vars

\* --------------------------------------------------- Search.branch_and_bound
\* Space.prototype.solution: the value of every determined variable that is
\* not a temporary (an undetermined one gives its domain, an empty one false).
\* The entry of S.solution() for a variable with domain d.
solution_entry(d) ==
    IF Len(d) = 0 THEN FALSE
    ELSE IF Len(d) > 1 \/ d[1][2] > d[1][1] THEN d
    ELSE d[1][1]

\* A faulty solution(), which lists the temporaries too.
solution_all(h, S) ==
    [n \in DOMAIN S.vars |-> solution_entry(h[S.vars[n]].dom)]

solution(h, S) ==
    [n \in {m \in DOMAIN S.vars : ~IsTempName(m)} |-> solution_entry(h[S.vars[n]].dom)]

\* An ordering that posts nothing.
ordering_none(W, sid, order, sol) == W

\* The ordering function of a script, order = [op, name]:
\* S[op](name, S.const(solution[name])), with op gt to maximise and lt to
\* minimise.  The scripts order on a variable their solved test determines.
ordering(W, sid, order, sol) ==
    With(konst(W, sid, sol[order.name]), LAMBDA W1 :
    IF order.op = "gt" THEN gt(W1, sid, order.name, TempName(W1.temp_count))
    ELSE lt(W1, sid, order.name, TempName(W1.temp_count)))

\* The loop after a solution: next_choice on the top of the stack, each space
\* without a choice left being done() and popped.  [W, stack, child, fail]
RECURSIVE bb_next_space(_, _)
bb_next_space(W, stack) ==
    With(next_choice(W, stack[Len(stack)]), LAMBDA nc :
    IF nc.fail THEN [W |-> nc.W, stack |-> stack, child |-> 0, fail |-> TRUE]
    ELSE IF nc.child # 0
    THEN [W |-> nc.W, stack |-> stack, child |-> nc.child, fail |-> FALSE]
    ELSE With([nc.W EXCEPT !.spaces = done(@, stack[Len(stack)])], LAMBDA W1 :
         IF Len(stack) = 1
         THEN [W |-> W1, stack |-> <<>>, child |-> 0, fail |-> FALSE]
         ELSE bb_next_space(W1, Pop(stack))))

\* The end of the while loop of branch_and_bound with the given stack.
LoopOrEndBB(st, stack) ==
    IF Len(stack) > 0
    THEN /\ state' = [st EXCEPT !.stack = stack]
         /\ pc' = "propagate"
    ELSE /\ state' = [st EXCEPT !.stack = stack, !.more = FALSE,
                                !.status = IF st.best # 0 THEN "solved" ELSE "end"]
         /\ pc' = "idle"

\* The catch block: space sid is failed and done(), the stack is popped.
CatchBB(W, sid, st, stack) ==
    /\ SetWorld([W EXCEPT !.spaces = done([W.spaces EXCEPT ![sid].failed = TRUE], sid)])
    /\ LoopOrEndBB([st EXCEPT !.more = Len(stack) > 1, !.needs_constraining = TRUE],
                   Pop(stack))

\* branch_and_bound(state, ordering) is called: first, or again.
BBCall ==
    /\ pc = "idle"
    /\ state.status = "none" \/ state.more
    /\ state' = [state EXCEPT !.stack = IF Len(@) = 0 THEN <<state.space>> ELSE @]
    /\ pc' = "propagate"
    /\ passes' = 0
    /\ lastop' = [op |-> "branch_and_bound", space |-> state.space, n |-> lastop.n + 1]
    /\ UNCHANGED <<fdvars, spaces, queues, temp_count, script, found>>

\* space.propagate() on the top of the stack, one pass; a throw is caught.
BBPropagate ==
    /\ pc = "propagate"
    /\ \E r \in {propagate_pass(fdvars, spaces[Top])} :
          IF r.fail
          THEN /\ CatchBB([TheWorld EXCEPT !.fdvars = r.h,
                                           !.spaces[Top].propagators = r.ps],
                          Top, state, state.stack)
               /\ passes' = 0
          ELSE /\ fdvars' = r.h
               /\ spaces' = [spaces EXCEPT ![Top].propagators = r.ps]
               /\ pc' = IF r.count > 0 THEN "propagate" ELSE "stable"
               /\ passes' = IF r.count > 0 THEN passes + 1 ELSE 0
               /\ UNCHANGED <<state, queues, temp_count>>
    /\ UNCHANGED <<script, found, lastop>>

\* The stable space on top is solved: it becomes the best solution; the next
\* space to explore is constrained by the ordering and pushed; in single-step
\* mode, or with nothing left to explore, the call returns.
BBSolved ==
    /\ pc = "stable"
    /\ solve_for_variables(state.solve_vars, fdvars, spaces[Top])
    /\ found' = Append(found, Found(Top))
    /\ \E W1 \in {[TheWorld EXCEPT !.spaces =
                      done([spaces EXCEPT ![Top].succeeded_children = @ + 1], Top)]} :
       \E st \in {[state EXCEPT !.status = "solved", !.space = Top, !.best = Top,
                                !.more = Len(state.stack) > 1]} :
          IF Len(state.stack) = 1
          THEN /\ SetWorld(W1)
               /\ state' = [st EXCEPT !.stack = <<>>]
               /\ pc' = "idle"
          ELSE \E r \in {bb_next_space(W1, Pop(state.stack))} :
               IF r.fail THEN CatchBB(r.W, Top, st, r.stack)
               ELSE IF r.child # 0
               THEN /\ SetWorld(ordering(r.W, r.child, script.order,
                                         solution(r.W.fdvars, r.W.spaces[Top])))
                    /\ state' = [st EXCEPT !.needs_constraining = FALSE,
                                           !.stack = Append(r.stack, r.child)]
                    /\ pc' = IF st.single_step THEN "idle" ELSE "propagate"
               ELSE /\ SetWorld(r.W)
                    /\ state' = [st EXCEPT !.more = FALSE, !.stack = <<>>]
                    /\ pc' = "idle"
    /\ UNCHANGED <<passes, script, lastop>>

\* The stable space on top is not solved and has a choice left: the committed
\* clone is constrained by the ordering if that is due, and pushed.
BBBranch ==
    /\ pc = "stable"
    /\ ~solve_for_variables(state.solve_vars, fdvars, spaces[Top])
    /\ Len(state.stack) < MaxDepth
    /\ \E nc \in {next_choice(TheWorld, Top)} :
          /\ nc.child # 0 \/ nc.fail
          /\ IF nc.fail THEN CatchBB(nc.W, Top, state, state.stack)
             ELSE /\ SetWorld(IF state.needs_constraining /\ state.best # 0
                              THEN ordering(nc.W, nc.child, script.order,
                                       solution(nc.W.fdvars, nc.W.spaces[state.best]))
                              ELSE nc.W)
                  /\ state' = [state EXCEPT !.needs_constraining = FALSE,
                                            !.stack = Append(@, nc.child)]
                  /\ pc' = "propagate"
    /\ UNCHANGED <<passes, script, found, lastop>>

\* The stable space on top is not solved and has no choice left: it is popped.
BBPop ==
    /\ pc = "stable"
    /\ ~solve_for_variables(state.solve_vars, fdvars, spaces[Top])
    /\ \E nc \in {next_choice(TheWorld, Top)} :
          /\ nc.child = 0 /\ ~nc.fail
          /\ SetWorld([nc.W EXCEPT
                !.spaces = done([nc.W.spaces EXCEPT ![Top].stable_children = @ + 1], Top)])
          /\ LoopOrEndBB([state EXCEPT !.more = Len(state.stack) > 1,
                                       !.needs_constraining = TRUE], Pop(state.stack))
    /\ UNCHANGED <<passes, script, found, lastop>>

\* The scripts of the branch-and-bound runs: X + Y = Z with one more
\* constraint, Z or X maximised or minimised; solved when X and Y are determined
\* (A may stay open) or when every variable is.
DomsBB == { << <<1, FD_SUP>> >>, << <<0, FD_SUP - 1>> >>, << <<FD_SUP - 1, FD_SUP>> >> }

ConsBB ==
    { << Con("plus", Names3, <<>>, ""), Con("neq", <<"X", "A">>, <<>>, "") >>,
      << Con("plus", Names3, <<>>, ""), Con("lt", <<"X", "Y">>, <<>>, "") >> }

ScriptsBB ==
    { [decls |-> << <<"X", dx>>, <<"Y", dy>>, <<"A", da>>, <<"Z", NoDom>> >>,
       cons |-> cs, dist |-> << Dist(sv[1], sv[2]) >>,
       single_step |-> ss, solve_vars |-> sv[3], order |-> [op |-> op, name |-> on]] :
        dx \in DomsBB, dy \in DomsBB, da \in DomsBB,
        cs \in ConsBB, ss \in BOOLEAN, op \in {"gt", "lt"}, on \in {"Z", "X"},
        sv \in { <<"naive", <<"X", "Y">>, <<"X", "Y">> >>,
                 <<"fail_first", <<"X", "Y">>, <<"X", "Y">> >>,
                 <<"split", <<"X", "Y">>, <<"X", "Y">> >>,
                 <<"naive", <<"X", "Y", "Z", "A">>, <<>> >> } }

InitBB == InitWith(ScriptsBB)

NextBB == BBCall \/ BBPropagate \/ BBSolved \/ BBBranch \/ BBPop

SpecBB == InitBB /\ [][NextBB]_vars

\* ----------------------------------------- operations applied to clones
\* A caller holding several spaces applies operations to them one at a time.
MaxOps == 4

MaxSpaces == 3

ScriptsClone ==
    { [decls |-> << <<"X", NoDom>>, <<"Y", << <<1, FD_SUP>> >> >>, <<"Z", dz>> >>,
       cons |-> cs, dist |-> << Dist("naive", Names3) >>,
       single_step |-> FALSE, solve_vars |-> <<>>] :
        dz \in { NoDom, << <<0, 1>> >> },
        cs \in { << Con("plus", Names3, <<>>, "") >>,
                 << Con("lt", <<"X", "Y">>, <<>>, ""), Con("neq", <<"Y", "Z">>, <<>>, "") >>,
                 << Con("reified", Names3, <<>>, "lt") >> } }

InitClone == InitWith(ScriptsClone)

\* The operation op was applied; space is the one it may write to.
Applied(op, sid) ==
    /\ lastop' = [op |-> op, space |-> sid, n |-> lastop.n + 1]
    /\ UNCHANGED <<state, pc, passes, script, found>>

\* C = S.clone()
CloneOp ==
    /\ lastop.n < MaxOps
    /\ Len(spaces) < MaxSpaces
    /\ \E sid \in 1..Len(spaces) :
          /\ SetWorld(clone(TheWorld, sid))
          /\ Applied("clone", Len(spaces) + 1)

\* S.propagate(), returning or throwing 'fail'
PropagateOp ==
    /\ lastop.n < MaxOps
    /\ \E sid \in 1..Len(spaces) : \E r \in {propagate(fdvars, spaces[sid])} :
          /\ fdvars' = r.h
          /\ spaces' = [spaces EXCEPT ![sid].propagators = r.ps]
          /\ UNCHANGED <<queues, temp_count>>
          /\ Applied("propagate", sid)

\* S.vars[name].constrain(dom), returning or throwing 'fail'
ConstrainOp ==
    /\ lastop.n < MaxOps
    /\ \E sid \in 1..Len(spaces) : \E name \in {"X", "Z"} :
       \E dom \in { << <<0, 1>> >>, << <<1, FD_SUP>> >> } :
       \E c \in {constrain(fdvars, spaces[sid].vars[name], dom)} :
          /\ fdvars' = c.h
          /\ UNCHANGED <<spaces, queues, temp_count>>
          /\ Applied("constrain", sid)

\* Posting one more propagator on S
PostOp ==
    /\ lastop.n < MaxOps
    /\ \E sid \in 1..Len(spaces) :
       \E con \in { Con("neq", <<"X", "Y">>, <<>>, ""), Con("sum", Names3, <<>>, ""),
                    Con("distinct", Names3, <<>>, "") } :
          /\ SetWorld(Post(TheWorld, sid, con))
          /\ Applied("post", sid)

\* next_choice(S): S.commit(S.clone(), n), the choice function applied to the
\* new clone
CommitOp ==
    /\ lastop.n < MaxOps
    /\ Len(spaces) < MaxSpaces
    /\ \E sid \in 1..Len(spaces) : \E nc \in {next_choice(TheWorld, sid)} :
          /\ nc.child # 0
          /\ SetWorld(nc.W)
          /\ Applied("commit", nc.child)

NextClone == CloneOp \/ PropagateOp \/ ConstrainOp \/ PostOp \/ CommitOp

SpecClone == InitClone /\ [][NextClone]_vars

\* What the variables and the propagator list of space sid hold.
SpaceView(sid) ==
    [vars |-> [n \in DOMAIN spaces[sid].vars |-> fdvars[spaces[sid].vars[n]]],
     propagators |-> spaces[sid].propagators]

\* ------------------------------------------- declarations on a built space
\* A caller declares names on the space a script built: names the script
\* declared (X, Y) and a name it did not (A), with and without a domain, one
\* at a time, as an array, and through num; propagate() runs in between.
DomsDecl ==
    { NoDom, << <<0, 1>> >>, << <<1, FD_SUP>> >>, << <<0, 0>>, <<FD_SUP, FD_SUP>> >> }

ScriptsDecl ==
    { [decls |-> << <<"X", dx>>, <<"Y", dy>> >>, cons |-> cs,
       dist |-> << Dist("naive", <<"X", "Y">>) >>,
       single_step |-> FALSE, solve_vars |-> <<>>] :
        dx \in { NoDom, << <<1, FD_SUP - 1>> >> }, dy \in { NoDom, << <<0, 1>> >> },
        cs \in { <<>>, << Con("lt", <<"X", "Y">>, <<>>, "") >> } }

InitDecl == InitWith(ScriptsDecl)

\* The FDVar of name in space sid before a call, <<>> when the name is absent.
Before(sid, name) ==
    IF name \in DOMAIN spaces[sid].vars THEN <<fdvars[spaces[sid].vars[name]]>> ELSE <<>>

\* decl / num was called on space sid with these names and this dom.
Declared(op, sid, names, dom) ==
    /\ lastop' = [op |-> op, space |-> sid, n |-> lastop.n + 1, names |-> names,
                  dom |-> dom,
                  before |-> [i \in 1..Len(names) |-> Before(sid, names[i])]]
    /\ UNCHANGED <<state, pc, passes, script, found>>

\* S.decl(name, dom) and S.decl(name)
DeclOp ==
    /\ lastop.n < MaxOps
    /\ \E sid \in 1..Len(spaces) : \E name \in {"X", "Y", "A"} : \E dom \in DomsDecl :
          /\ SetWorld(decl(TheWorld, sid, name, dom))
          /\ Declared("decl", sid, <<name>>, dom)

\* S.decl([names], dom)
DeclAllOp ==
    /\ lastop.n < MaxOps
    /\ \E sid \in 1..Len(spaces) : \E names \in { <<"X", "A">>, <<"A", "Y">> } :
       \E dom \in DomsDecl :
          /\ SetWorld(decl_all(TheWorld, sid, names, dom))
          /\ Declared("decl", sid, names, dom)

\* S.num(name, n)
NumOp ==
    /\ lastop.n < MaxOps
    /\ \E sid \in 1..Len(spaces) : \E name \in {"X", "A"} : \E n \in {0, FD_SUP - 1, FD_SUP} :
          /\ SetWorld(num(TheWorld, sid, name, n))
          /\ Declared("num", sid, <<name>>, << <<n, n>> >>)

NextDecl == DeclOp \/ DeclAllOp \/ NumOp \/ PropagateOp

SpecDecl == InitDecl /\ [][NextDecl]_vars

\* ------------------------------------------------ propagate() in a search
\* The depth_first driver over the constraint scripts and the reified ones:
\* every propagate() call a search makes, one pass at a time.
InitPropagate == InitWith(ScriptsDF \cup ScriptsReified)

SpecPropagate == InitPropagate /\ [][Next]_vars

\* What a pass of propagate() can still take away from space sid: for each
\* variable, twice the number of values of its domain less its number of
\* intervals.  set_dom counts a change when a value is removed and also when
\* the same values are split into more intervals ([[0, 3]] becoming
\* [[0, 1], [2, 3]]); both lower this number, which is never negative.
RECURSIVE SumMeasure(_, _)
SumMeasure(S, keys) ==
    IF keys = <<>> THEN 0
    ELSE 2 * Cardinality(DomSet(fdvars[S.vars[keys[1]]].dom))
            - Len(fdvars[S.vars[keys[1]]].dom) + SumMeasure(S, Tail(keys))

SpaceMeasure(sid) == SumMeasure(spaces[sid], KeysOf(spaces[sid].vars))

\* ------------------------------ propagate() called by a driver and directly
\* S.propagate() called on the root space by the caller itself, before any
\* search; one pass of the do-while loop per step.  A throw reaches the
\* caller, and nothing else is written.
DirectPropagate ==
    /\ \/ pc = "idle" /\ state.status = "none" /\ lastop.op = "new"
       \/ pc = "direct"
    /\ \E r \in {propagate_pass(fdvars, spaces[1])} :
          /\ fdvars' = r.h
          /\ spaces' = [spaces EXCEPT ![1].propagators = r.ps]
          /\ pc' = IF ~r.fail /\ r.count > 0 THEN "direct" ELSE "idle"
          /\ lastop' = [op |-> "propagate", space |-> 1, n |-> 0, threw |-> r.fail]
    /\ UNCHANGED <<queues, temp_count, state, passes, script, found>>

InitFail == InitWith(ScriptsDF)

NextFail == DirectPropagate \/ DFCall \/ DFPropagate \/ DFSolved \/ DFBranch \/ DFPop

SpecFail == InitFail /\ [][NextFail]_vars

\* ---------------------------------------------------- the domain functions
\* The domain functions applied to every domain over [0, FD_SUP] in the
\* form with sorted, non-empty intervals that neither overlap nor touch, and
\* simplify_domain applied to every list of at most MaxLen intervals with
\* bounds in [0, FD_SUP], lists that are unsorted, overlap or hold empty
\* intervals included.
MaxLen == 3

RECURSIVE CanonFrom(_, _, _)
CanonFrom(S, x, acc) ==
    IF x > FD_SUP THEN acc
    ELSE IF x \notin S THEN CanonFrom(S, x + 1, acc)
    ELSE IF acc # <<>> /\ acc[Len(acc)][2] = x - 1
    THEN CanonFrom(S, x + 1, [acc EXCEPT ![Len(acc)] = <<@[1], x>>])
    ELSE CanonFrom(S, x + 1, Append(acc, <<x, x>>))

CanonOf(S) == CanonFrom(S, 0, <<>>)

Canon == { CanonOf(S) : S \in SUBSET (0..FD_SUP) }

RawLists ==
    UNION { [1..n -> (0..FD_SUP) \X (0..FD_SUP)] : n \in 0..MaxLen }

\* No search runs here: script holds the arguments, lastop the function that
\* was applied and what it returned.
InitDomains ==
    /\ fdvars = <<>> /\ spaces = <<>> /\ queues = <<>> /\ temp_count = 1
    /\ state = [status |-> "none"] /\ pc = "idle" /\ passes = 0 /\ found = <<>>
    /\ lastop = [op |-> "new", out |-> <<>>]
    /\ \/ \E a, b, c \in Canon : script = [kind |-> "canon", a |-> a, b |-> b, c |-> c]
       \/ \E d \in RawLists : script = [kind |-> "raw", d |-> d]

Returned(op, out) ==
    /\ lastop' = [op |-> op, out |-> out]
    /\ UNCHANGED <<fdvars, spaces, queues, temp_count, state, pc, passes, script, found>>

IntersectionOp ==
    /\ script.kind = "canon"
    /\ Returned("intersection",
          [ab |-> domain_intersection(script.a, script.b),
           ba |-> domain_intersection(script.b, script.a),
           ab_c |-> domain_intersection(domain_intersection(script.a, script.b), script.c),
           a_bc |-> domain_intersection(script.a, domain_intersection(script.b, script.c))])

UnionOp ==
    /\ script.kind = "canon"
    /\ Returned("union", domain_union(script.a, script.b))

ComplementOp ==
    /\ script.kind = "canon"
    /\ \E c \in {domain_complement(script.a)} :
          Returned("complement",
             [c |-> c, u |-> domain_union(c, script.a),
              i |-> domain_intersection(c, script.a)])

PlusOp ==
    /\ script.kind = "canon"
    /\ Returned("plus", dom_plus(script.a, script.b))

MinusOp ==
    /\ script.kind = "canon"
    /\ Returned("minus", dom_minus(script.a, script.b))

TimesOp ==
    /\ script.kind = "canon"
    /\ Returned("times", dom_times(script.a, script.b))

\* dom_divby(a, b), and the domain one step of times(c, b, a) gives c
DivbyOp ==
    /\ script.kind = "canon"
    /\ Returned("divby",
          [q |-> dom_divby(script.a, script.b),
           v1 |-> times_v1_dom(script.c, script.b, script.a)])

SimplifyOp ==
    /\ script.kind = "raw"
    /\ \E s \in {simplify_domain(script.d)} :
          Returned("simplify", [once |-> s, twice |-> simplify_domain(s)])

\* sum.set_dom(d) as the sum step of plus(v1, v2, sum) calls it on declared
\* domains v1 = a, v2 = b, sum = c: d = intersection(dom_plus(a, b), c), not
\* empty (an empty d throws before set_dom is reached).
SetDomOp ==
    /\ script.kind = "canon"
    /\ \E d \in {domain_intersection(dom_plus(script.a, script.b), script.c)} :
          /\ d # <<>>
          /\ Returned("set_dom",
                [before |-> FDVar(script.c, 0), d |-> d,
                 after |-> set_dom(<<FDVar(script.c, 0)>>, 1, d)[1]])

\* The step of a new lt / neq propagator on x with domain a and y with
\* domain b, both at revision 0: its gate is open (last_step is -1).
StepOn(kind, a, b) ==
    simple_step(<<FDVar(a, 0), FDVar(b, 0)>>, Prop(kind, <<"x", "y">>, <<1, 2>>, 0, ""))

LtStepOp ==
    /\ script.kind = "canon"
    /\ script.a # <<>> /\ script.b # <<>>
    /\ Returned("lt_step", [x |-> script.a, y |-> script.b,
                            r |-> StepOn("lt", script.a, script.b)])

NeqStepOp ==
    /\ script.kind = "canon"
    /\ script.a # <<>> /\ script.b # <<>>
    /\ Returned("neq_step", [x |-> script.a, y |-> script.b,
                             r |-> StepOn("neq", script.a, script.b)])

NextDomains ==
    \/ IntersectionOp \/ UnionOp \/ ComplementOp \/ PlusOp \/ MinusOp \/ TimesOp
    \/ DivbyOp \/ SimplifyOp \/ SetDomOp \/ LtStepOp \/ NeqStepOp

SpecDomains == InitDomains /\ [][NextDomains]_vars

\* ------------------------------------------------ the brancher of a family
\* A caller holding a root space and its clones enqueues strategies through
\* any of them, constrains variables, clones, and asks for the next choice;
\* the root is built with no strategy, one, or two, and with X determined or
\* not, so that a brancher's cursor has something to move past.
ScriptsBrancher ==
    { [decls |-> << <<"X", dx>>, <<"Y", << <<1, FD_SUP>> >> >>, <<"Z", << <<0, 1>> >> >> >>,
       cons |-> << Con("lte", <<"X", "Y">>, <<>>, "") >>, dist |-> ds,
       single_step |-> FALSE, solve_vars |-> <<>>] :
        dx \in { << <<0, 1>> >>, << <<1, 1>> >> },
        ds \in { <<>>, << Dist("naive", <<"X">>) >>,
                 << Dist("naive", <<"X">>), Dist("split", <<"Y", "Z">>) >> } }

InitBrancher == InitWith(ScriptsBrancher)

\* S.brancher.enqueue(strategy), through a distribution on the space S
EnqueueOp ==
    /\ lastop.n < MaxOps
    /\ \E sid \in 1..Len(spaces) :
       \E d \in { Dist("naive", <<"Y">>), Dist("split", <<"Z", "Y">>) } :
          /\ SetWorld(Distribute(TheWorld, sid, d))
          /\ Applied("enqueue", sid)

NextBrancher == CloneOp \/ EnqueueOp \/ ConstrainOp \/ CommitOp

SpecBrancher == InitBrancher /\ [][NextBrancher]_vars

\* ------------------------------------------------------- reading a solution
\* A caller builds a space, propagates it or not, and reads S.solution():
\* variables declared determined, undetermined and with an empty domain,
\* with and without the temporaries that sum creates.
DomsSolution ==
    { <<>>, << <<1, 1>> >>, << <<0, 1>> >>, << <<0, 0>>, <<2, 2>> >> }

ScriptsSolution ==
    { [decls |-> << <<"X", dx>>, <<"Y", dy>>, <<"Z", dz>> >>, cons |-> cs, dist |-> <<>>,
       single_step |-> FALSE, solve_vars |-> <<>>] :
        dx \in DomsSolution, dy \in DomsSolution, dz \in { NoDom, << <<FD_SUP, FD_SUP>> >> },
        cs \in { <<>>, << Con("eq", <<"X", "Y">>, <<>>, "") >>,
                 << Con("sum", <<"X", "Y", "X", "Z">>, <<>>, "") >> } }

InitSolution == InitWith(ScriptsSolution)

\* S.solution(), with S.is_solved() read beside it
SolutionOp ==
    /\ lastop.n < MaxOps
    /\ \E sid \in 1..Len(spaces) :
          lastop' = [op |-> "solution", space |-> sid, n |-> lastop.n + 1,
                     out |-> solution(fdvars, spaces[sid]),
                     solved |-> is_solved(fdvars, spaces[sid])]
    /\ UNCHANGED <<fdvars, spaces, queues, temp_count, state, pc, passes, script, found>>

NextSolution == PropagateOp \/ SolutionOp

SpecSolution == InitSolution /\ [][NextSolution]_vars

\* --------------------------------------------- cloning an unpropagated space
\* A caller clones a root space that may never have been propagated, with X
\* and Y declared determined or not, so that a propagator can have all its
\* variables determined before it has ever run.
ScriptsCloneFirst ==
    { [decls |-> << <<"X", dx>>, <<"Y", dy>>, <<"Z", dz>> >>, cons |-> cs,
       dist |-> << Dist("naive", Names3) >>, single_step |-> FALSE, solve_vars |-> <<>>] :
        dx \in { << <<1, 1>> >>, << <<2, 2>> >>, << <<1, 2>> >> },
        dy \in { << <<1, 1>> >>, << <<2, 2>> >>, << <<1, 2>> >> },
        dz \in { NoDom, << <<FD_SUP, FD_SUP>> >> },
        cs \in { << Con("eq", <<"X", "Y">>, <<>>, "") >>,
                 << Con("lt", <<"X", "Y">>, <<>>, ""), Con("neq", <<"Y", "Z">>, <<>>, "") >>,
                 << Con("plus", Names3, <<>>, "") >> } }

InitCloneFirst == InitWith(ScriptsCloneFirst)

NextCloneFirst == CloneOp \/ PropagateOp \/ ConstrainOp \/ CommitOp

SpecCloneFirst == InitCloneFirst /\ [][NextCloneFirst]_vars

\* ------------------------------------------------ the value strategies
\* One variable of a space is distributed by hand: the choice function of a
\* value strategy is applied with n = 0 to one clone of the space and with
\* n = 1 to another, as next_choice does for the two children of a space.
ValueNames == {"min", "max", "mid", "splitMin", "splitMax"}

ScriptsValues ==
    { [decls |-> << <<"X", dx>>, <<"Z", dy>> >>, cons |-> <<>>, dist |-> <<>>,
       single_step |-> FALSE, solve_vars |-> <<>>] :
        dx \in Canon \ {<<>>}, dy \in { << <<0, 1>> >>, << <<0, 0>>, <<FD_SUP, FD_SUP>> >> } }

InitValues == InitWith(ScriptsValues)

\* function options(S, n) of Distribute.generic.values[value](v), on a new
\* clone of space sid: what the clone's variable holds afterwards, and whether
\* the constrain threw 'fail'.
Choice(W0, value, sid, name, n) ==
    With(clone(W0, sid), LAMBDA W :
    With(W.spaces[Len(W.spaces)].vars[name], LAMBDA ref :
    With(options(value, W.fdvars, ref, n), LAMBDA c :
    [fail |-> c.fail, dom |-> c.h[ref].dom, W |-> [W EXCEPT !.fdvars = c.h]])))

\* Both children of the space for one undetermined variable: the second
\* clone is made after the first was committed, as in a search.
ChoicesOp ==
    /\ lastop.n < MaxOps
    /\ Len(spaces) + 2 <= MaxSpaces
    /\ \E sid \in 1..Len(spaces) : \E name \in {"X", "Z"} : \E value \in ValueNames :
          /\ is_undetermined(fdvars[spaces[sid].vars[name]])
          /\ \E c0 \in {Choice(TheWorld, value, sid, name, 0)} :
             \E c1 \in {Choice(c0.W, value, sid, name, 1)} :
                /\ SetWorld(c1.W)
                /\ lastop' = [op |-> "choices", space |-> sid, n |-> lastop.n + 1,
                              value |-> value,
                              parent |-> fdvars[spaces[sid].vars[name]].dom,
                              fail |-> <<c0.fail, c1.fail>>, dom |-> <<c0.dom, c1.dom>>]
    /\ UNCHANGED <<state, pc, passes, script, found>>

NextValues == ChoicesOp \/ ConstrainOp

SpecValues == InitValues /\ [][NextValues]_vars

\* ------------------------------------------------------ either search
\* A caller runs one of the two searches on the space a script built:
\* branch_and_bound when the script has an ordering, depth_first otherwise.
IsBB == "order" \in DOMAIN script

InitSearch == InitWith(ScriptsDF \cup ScriptsBB)

NextSearch ==
    \/ ~IsBB /\ DFCall
    \/ ~IsBB /\ DFPropagate
    \/ ~IsBB /\ DFSolved
    \/ ~IsBB /\ DFBranch
    \/ ~IsBB /\ DFPop
    \/ IsBB /\ BBCall
    \/ IsBB /\ BBPropagate
    \/ IsBB /\ BBSolved
    \/ IsBB /\ BBBranch
    \/ IsBB /\ BBPop

SpecSearch == InitSearch /\ [][NextSearch]_vars

\* ------------------------------------------------- calls that are refused
\* A caller posts on a built space, among calls that go through, calls the
\* library refuses with a usage error: reified with an operator it does not
\* know, scale with a negative factor, sum of an empty list (with a result
\* name and without one), konst of a value outside 0..FD_SUP.
Call(fn, a, k, op) == [fn |-> fn, a |-> a, k |-> k, op |-> op]

Calls ==
    { Call("reified", Names3, 0, op) : op \in {"lt", "neq", "between"} }
    \cup { Call("scale", <<"X", "Z">>, k, "") : k \in {-1, 0, 1, 2} }
    \cup { Call("sum", a, 0, "") :
             a \in { <<"">>, <<"Z">>, <<"X", "">>, <<"X", "Y", "Z">> } }
    \cup { Call("konst", <<>>, k, "") : k \in {-1, 0, FD_SUP, FD_SUP + 1} }

\* The call c on space sid: the world it leaves, error set when it threw.
\* The last name of a sum is its result name, "" when it is left out.
DoCall(W, sid, c) ==
    CASE c.fn = "reified" -> reified(W, sid, c.op, <<c.a[1], c.a[2]>>, c.a[3])
      [] c.fn = "scale"   -> scale(W, sid, c.k, c.a[1], c.a[2])
      [] c.fn = "sum"     -> sum(W, sid, SubSeq(c.a, 1, Len(c.a) - 1), c.a[Len(c.a)])
      [] c.fn = "konst"   -> konst(W, sid, c.k)

ScriptsUsage ==
    { [decls |-> << <<"X", dx>>, <<"Y", << <<0, 1>> >> >>, <<"Z", dz>> >>,
       cons |-> cs, dist |-> <<>>, single_step |-> FALSE, solve_vars |-> <<>>] :
        dx \in { NoDom, << <<1, 1>> >> }, dz \in { NoDom, << <<0, 1>> >> },
        cs \in { <<>>, << Con("lt", <<"X", "Y">>, <<>>, "") >> } }

InitUsage == InitWith(ScriptsUsage)

\* One call on a space; what it threw is kept with the space as it was.
CallOp ==
    /\ lastop.n < MaxOps
    /\ \E sid \in 1..Len(spaces) : \E c \in Calls : \E W \in {DoCall(TheWorld, sid, c)} :
          /\ SetWorld(W)
          /\ lastop' = [op |-> "call", space |-> sid, n |-> lastop.n + 1, call |-> c,
                        error |-> W.error, before |-> SpaceView(sid),
                        names |-> DOMAIN spaces[sid].vars]
    /\ UNCHANGED <<state, pc, passes, script, found>>

NextUsage == CallOp \/ CloneOp

SpecUsage == InitUsage /\ [][NextUsage]_vars

\* ------------------------------------------------------------------ claims
\* C1: every space depth_first returns as 'solved' has every variable
\* determined, and its values satisfy every constraint the script posted.
C1_Soundness ==
    \A i \in 1..Len(found) :
        /\ Determined(found[i].vars)
        /\ Values(script, found[i].vars) \in Solutions(script)

\* C1 witness: a space was returned as solved for a script posting plus.
C1_Witness ==
    /\ Len(found) >= 2
    /\ \E i \in 1..Len(script.cons) : script.cons[i].c = "plus"
    /\ \E i \in 1..Len(script.cons) : script.cons[i].c = "distinct"

\* The scripts C2 speaks of: every variable is listed in a built-in strategy
\* and the constraints are among neq, distinct, lt, lte, gt, gte, eq, plus.
C2_Script ==
    /\ \A i \in 1..Len(script.cons) :
          script.cons[i].c \in ReifiableOps \cup {"distinct", "plus"}
    /\ \A n \in DeclNames(script) :
          \E i \in 1..Len(script.dist) :
              \E j \in 1..Len(script.dist[i].names) : script.dist[i].names[j] = n

\* C2: once depth_first has been called until more is false, every
\* satisfying assignment of the script was returned as solved.
C2_Completeness ==
    (C2_Script /\ Exhausted) =>
        \A a \in Solutions(script) :
            \E i \in 1..Len(found) : Values(script, found[i].vars) = a

\* C3: when no assignment satisfies the constraints, depth_first returns no
\* space as solved, and it returns with status 'end' and more false.
C3_NoSolution ==
    Solutions(script) = {} =>
        /\ found = <<>>
        /\ state.status # "solved"
        /\ pc = "idle" /\ state.status # "none" =>
              state.status = "end" /\ ~state.more

\* C3 witness: depth_first returned on a script with no solution whose
\* root space failed on its first propagation.
C3_Witness ==
    /\ Solutions(script) = {}
    /\ pc = "idle" /\ state.status = "end"
    /\ Len(spaces) = 1 /\ spaces[1].failed

\* C4: an operation applied to one space (propagate, constrain, posting a
\* propagator, committing a choice, cloning) changes the domain or revision
\* of no variable of any other space, and no other space's propagator list:
\* in particular nothing done to a clone C changes the space S it came from.
C4_CloneIndependence ==
    [][\A sid \in 1..Len(spaces) :
          sid # lastop'.space => SpaceView(sid)' = SpaceView(sid)]_vars

\* C4 witness: propagate was applied to a clone C of S and narrowed a
\* variable of C, which now differs from S's variable of that name.
C4_Witness ==
    /\ lastop.op = "propagate"
    /\ spaces[lastop.space].clone_of # 0
    /\ \E n \in DOMAIN spaces[lastop.space].vars :
          LET S == spaces[spaces[lastop.space].clone_of]
          IN fdvars[spaces[lastop.space].vars[n]].dom # fdvars[S.vars[n]].dom

\* The value of the variable the script orders on, in a returned space and
\* in an assignment; v is strictly better than w under the ordering.
OrderValue(f) == f.vars[script.order.name][1][1]

Better(v, w) == IF script.order.op = "gt" THEN v > w ELSE v < w

\* C5: every solution branch_and_bound finds after an earlier one is
\* strictly better under the ordering than every solution found before it,
\* in one-shot and in single-step mode.
C5_Improving ==
    \A i, j \in 1..Len(found) :
        i < j => Better(OrderValue(found[j]), OrderValue(found[i]))

\* C5 witness: three solutions were found, one after the other.
C5_Witness == Len(found) >= 3

\* C6: when branch_and_bound has exhausted the tree, then if a solution was
\* found the status is 'solved', state.best and state.space are the last
\* solution found, and no satisfying assignment is strictly better; if
\* none was found the status is 'end'.
C6_Optimal ==
    Exhausted =>
        IF found = <<>> THEN state.status = "end"
        ELSE /\ state.status = "solved"
             /\ state.best = found[Len(found)].space
             /\ state.space = state.best
             /\ \A a \in Solutions(script) :
                   ~Better(a[script.order.name], OrderValue(found[Len(found)]))

\* C7: in single-step mode, a call made after an earlier call returned a
\* solution with more = true, and which itself finds no solution, returns
\* with status 'end'.
C7_LaterEmptyCallEnds ==
    (/\ state.single_step
     /\ pc = "idle"
     /\ lastop.n >= 2
     /\ \A i \in 1..Len(found) : found[i].call < lastop.n)
        => state.status = "end"

DeclaredVar(i) == fdvars[spaces[lastop.space].vars[lastop.names[i]]]

\* C9 as stated: after decl(name, dom) or num(name, n) on a name that exists,
\* the domain is the intersection of the previous domain and dom; on an
\* absent name the variable has domain dom, or [[0, SUP]] without dom.
C9_DeclConstrains ==
    lastop.op \in {"decl", "num"} =>
        \A i \in 1..Len(lastop.names) :
            IF lastop.before[i] = <<>>
            THEN DeclaredVar(i).dom = IF lastop.dom = NoDom THEN DefaultDom ELSE lastop.dom
            ELSE lastop.dom # NoDom =>
                    DomSet(DeclaredVar(i).dom)
                        = DomSet(lastop.before[i][1].dom) \cap DomSet(lastop.dom)

\* C9 amended: after decl(name, dom) or num(name, n) on a name that exists,
\* the domain is dom and the revision has grown by one exactly when dom
\* differs from the previous domain; without dom the variable is unchanged;
\* on an absent name the variable has domain dom, or [[0, SUP]] without dom,
\* and revision 0.
C9_DeclSets ==
    lastop.op \in {"decl", "num"} =>
        \A i \in 1..Len(lastop.names) :
            IF lastop.before[i] = <<>>
            THEN /\ DeclaredVar(i).dom = IF lastop.dom = NoDom THEN DefaultDom ELSE lastop.dom
                 /\ DeclaredVar(i).step = 0
            ELSE IF lastop.dom = NoDom THEN DeclaredVar(i) = lastop.before[i][1]
            ELSE /\ DeclaredVar(i).dom = lastop.dom
                 /\ DeclaredVar(i).step = lastop.before[i][1].step
                        + (IF lastop.before[i][1].dom = lastop.dom THEN 0 ELSE 1)

\* C9 witness: a name whose domain propagate() had narrowed was declared
\* again with a dom holding a value that was not in its domain.
C9_Witness ==
    /\ lastop.op \in {"decl", "num"}
    /\ lastop.dom # NoDom
    /\ \E i \in 1..Len(lastop.names) :
          /\ lastop.before[i] # <<>>
          /\ lastop.before[i][1].step > 0
          /\ ~(DomSet(lastop.dom) \subseteq DomSet(lastop.before[i][1].dom))

\* C10: a propagate() call makes finitely many passes: every pass after
\* which the call goes on to another pass (it neither returned nor raised
\* fail) has lowered SpaceMeasure of the space, a natural number, so the call
\* returns or raises fail after at most SpaceMeasure + 1 passes.
C10_PropagateTerminates ==
    [][(pc = "propagate" /\ pc' = "propagate" /\ passes' = passes + 1)
          => /\ state'.stack = state.stack
             /\ SpaceMeasure(Top)' < SpaceMeasure(Top)
             /\ SpaceMeasure(Top)' >= 0]_vars

\* C10 witness: a propagate() call is about to make its third pass.
C10_Witness == pc = "propagate" /\ passes >= 2

\* C11: immediately after propagate() has returned normally, stepping any
\* propagator of the space again throws nothing, returns 0 and changes no
\* variable's domain or revision.
C11_Fixpoint ==
    pc = "stable" =>
        \A i \in 1..Len(spaces[Top].propagators) :
            \E r \in {step(fdvars, spaces[Top], spaces[Top].propagators[i])} :
                ~r.fail /\ r.ret = 0 /\ r.h = fdvars

\* C11 witness: propagate() returned on a space with several propagators
\* after narrowing one of its variables twice.
C11_Witness ==
    /\ pc = "stable"
    /\ Len(spaces[Top].propagators) >= 2
    /\ \E n \in DOMAIN spaces[Top].vars : fdvars[spaces[Top].vars[n]].step >= 2

\* The first propagator of space S whose step throws when the propagators
\* are stepped in order from the heap h (at = 0 when none does), and the heap
\* as that step left it.
RECURSIVE FailFrom(_, _, _)
FailFrom(h, S, i) ==
    IF i > Len(S.propagators) THEN [at |-> 0, h |-> h]
    ELSE With(step(h, S, S.propagators[i]), LAMBDA r :
         IF r.fail THEN [at |-> i, h |-> r.h] ELSE FailFrom(r.h, S, i + 1))

\* The step is a pass of propagate() made for the search driver / for a
\* caller of S.propagate() itself, and Called is the space it runs on.
DriverPass == pc = "propagate"

DirectPass == pc \in {"idle", "direct"} /\ lastop'.op = "propagate"

Called == IF pc = "propagate" THEN Top ELSE 1

\* The pass in which a propagator fails steps no later propagator: the
\* variables are as the failing step left them, and the propagators after it
\* are untouched.
Aborts(f) ==
    /\ fdvars' = f.h
    /\ \A j \in (f.at + 1)..Len(spaces[Called].propagators) :
          spaces'[Called].propagators[j] = spaces[Called].propagators[j]

\* C12 as stated: when a propagator fails inside S.propagate(), no later
\* propagator is stepped in that call and S is marked failed.
C12_FailMarks ==
    [][(DriverPass \/ DirectPass) =>
          \E f \in {FailFrom(fdvars, spaces[Called], 1)} :
              f.at > 0 => Aborts(f) /\ spaces'[Called].failed]_vars

\* C12 amended: when a propagator fails inside S.propagate(), no later
\* propagator is stepped in that call and the fail reaches the caller; a
\* search driver that called propagate() marks S failed and pops it, while a
\* direct call leaves S.failed as it was.
C12_FailAborts ==
    [][(DriverPass \/ DirectPass) =>
          \E f \in {FailFrom(fdvars, spaces[Called], 1)} :
              f.at > 0 =>
                 /\ Aborts(f)
                 /\ DriverPass =>
                       /\ spaces'[Called].failed
                       /\ state'.stack = Pop(state.stack)
                 /\ DirectPass =>
                       /\ lastop'.threw
                       /\ pc' = "idle"
                       /\ spaces'[Called].failed = spaces[Called].failed]_vars

\* C12 witness: a propagator threw inside the propagate() the driver called
\* on a child space with several propagators, which is now marked failed.
C12_Witness ==
    /\ lastop.op = "depth_first"
    /\ \E sid \in 1..Len(spaces) :
          /\ spaces[sid].failed
          /\ spaces[sid].clone_of # 0
          /\ Len(spaces[sid].propagators) >= 2

\* The form the specification calls canonical, for bounds counted in units
\* of 1 / u: every interval non-empty, the intervals sorted, and consecutive
\* ones neither overlapping nor touching.
IsCanonicalIn(d, u) ==
    /\ \A i \in 1..Len(d) : d[i][1] <= d[i][2]
    /\ \A i \in 1..(Len(d) - 1) : d[i][2] + u < d[i + 1][1]

IsCanonical(d) == IsCanonicalIn(d, 1)

\* C13: every domain returned by intersection, union, complement, plus,
\* minus, times and divby on canonical arguments, and by simplify_domain on
\* any interval list, is canonical.
C13_Canonical ==
    CASE lastop.op = "intersection" ->
            IsCanonical(lastop.out.ab) /\ IsCanonical(lastop.out.ab_c)
      [] lastop.op = "complement" -> IsCanonical(lastop.out.c)
      [] lastop.op \in {"union", "plus", "minus", "times"} -> IsCanonical(lastop.out)
      [] lastop.op = "divby" -> IsCanonicalIn(lastop.out.q, Unit)
      [] lastop.op = "simplify" -> IsCanonical(lastop.out.once)
      [] OTHER -> TRUE

\* C14: intersection(a, b) holds exactly the integers in both a and b, is
\* commutative and is associative.
C14_Intersection ==
    lastop.op = "intersection" =>
        /\ DomSet(lastop.out.ab) = DomSet(script.a) \cap DomSet(script.b)
        /\ lastop.out.ab = lastop.out.ba
        /\ lastop.out.ab_c = lastop.out.a_bc

\* C14 witness: two domains of several intervals each were intersected with
\* a third, and the result is not empty.
C14_Witness ==
    /\ lastop.op = "intersection"
    /\ Len(script.a) >= 2 /\ Len(script.b) >= 2 /\ Len(script.c) >= 2
    /\ lastop.out.ab_c # <<>>

\* C15: complement(d) holds exactly the integers of [0, SUP] not in d:
\* union(complement(d), d) = [[0, SUP]] and intersection(complement(d), d)
\* = [].
C15_Complement ==
    lastop.op = "complement" =>
        /\ DomSet(lastop.out.c) = (0..FD_SUP) \ DomSet(script.a)
        /\ lastop.out.u = << <<0, FD_SUP>> >>
        /\ lastop.out.i = <<>>

\* C16: plus(a, b) holds exactly the sums min(SUP, x + y) and minus(a, b)
\* exactly the differences x - y >= 0, for x in a and y in b, and each is
\* the domain the same loops give without the gap-closing step.
C16_PlusMinus ==
    /\ lastop.op = "plus" =>
          /\ DomSet(lastop.out)
                = { Min2(FD_SUP, x + y) : x \in DomSet(script.a), y \in DomSet(script.b) }
          /\ lastop.out = plus_pairs(script.a, script.b)
    /\ lastop.op = "minus" =>
          /\ DomSet(lastop.out)
                = { z \in { x - y : x \in DomSet(script.a), y \in DomSet(script.b) } : z >= 0 }
          /\ lastop.out = minus_pairs(script.a, script.b)

\* The intervals divby is specified to give, before canonicalisation:
\* [floor(a_i.lo / b_j.hi), floor(a_i.hi / b_j.lo)] for b_j.hi > 0, with
\* hi = SUP when b_j.lo = 0.
FlooredQuotients(d1, d2) ==
    LET kept == SelectSeq(PairSeq(d1, d2), LAMBDA q : q[2][2] > 0)
    IN [k \in 1..Len(kept) |->
           << kept[k][1][1] \div kept[k][2][2],
              IF kept[k][2][1] > 0 THEN kept[k][1][2] \div kept[k][2][1] ELSE FD_SUP >>]

\* Every bound of the domain d, held in units of 1 / Unit, is an integer.
IntegerBounds(d) == \A i \in 1..Len(d) : d[i][1] % Unit = 0 /\ d[i][2] % Unit = 0

\* C17: divby(a, b) is made of the floored quotient intervals, and a step of
\* times gives a variable no bound that is not an integer.
C17_Divby ==
    lastop.op = "divby" =>
        /\ lastop.out.q = simplify_domain(ScaleDom(FlooredQuotients(script.a, script.b)))
        /\ IntegerBounds(lastop.out.q)
        /\ IntegerBounds(lastop.out.v1)

\* C18: simplify_domain(d) holds the same integers as the interval list d,
\* and applying it again changes nothing.
C18_Simplify ==
    lastop.op = "simplify" =>
        /\ DomSet(lastop.out.once) = DomSet(script.d)
        /\ lastop.out.twice = lastop.out.once

\* C18 witness: a list that is unsorted, overlaps and holds an empty
\* interval was simplified.
C18_Witness ==
    /\ lastop.op = "simplify"
    /\ Len(script.d) = 3
    /\ script.d[1][1] > script.d[2][1]
    /\ script.d[2][2] >= script.d[1][1]
    /\ script.d[3][1] > script.d[3][2]

\* C16 witness: plus was applied to domains in which the gap-closing step
\* closed a gap, and the sum is not the whole range.
C16_Witness ==
    /\ lastop.op = "plus"
    /\ dom_close_gaps2(script.a, script.b) # <<script.a, script.b>>
    /\ lastop.out # << <<0, FD_SUP>> >>

\* The step is C = S.clone(): C is the new last space, S the one cloned.
Cloned == lastop'.op = "clone" /\ Len(spaces') = Len(spaces) + 1

\* What a propagator is, apart from the variables it is bound to and its
\* step counter.
Posted(p) == [kind |-> p.kind, allvars |-> p.allvars, factor |-> p.factor, op |-> p.op]

\* C19: after C = S.clone(), C has exactly S's variable names, each with the
\* domain it has in S, and C's propagators are S's propagators that are not
\* solved, in S's order, each bound to C's own variables, which are new
\* objects.
C19_Clone ==
    [][Cloned =>
        LET C == spaces'[Len(spaces')]
            S == spaces[C.clone_of]
            NS == SelectSeq(S.propagators, LAMBDA p : ~propagator_is_solved(fdvars, S, p))
        IN /\ DOMAIN C.vars = DOMAIN S.vars
           /\ \A n \in DOMAIN S.vars :
                 /\ fdvars'[C.vars[n]].dom = fdvars[S.vars[n]].dom
                 /\ C.vars[n] \notin DOMAIN fdvars
           /\ Len(C.propagators) = Len(NS)
           /\ \A i \in 1..Len(NS) :
                 /\ Posted(C.propagators[i]) = Posted(NS[i])
                 /\ C.propagators[i].space
                       = [k \in 1..Len(NS[i].allvars) |-> C.vars[NS[i].allvars[k]]]]_vars

\* C19 witness: a space with a solved and an unsolved propagator was cloned,
\* and the clone holds fewer propagators than its parent, but not none.
C19_Witness ==
    /\ lastop.op = "clone"
    /\ Len(spaces[lastop.space].propagators) >= 1
    /\ Len(spaces[lastop.space].propagators)
          < Len(spaces[spaces[lastop.space].clone_of].propagators)

\* C20: a pass of propagate(), whether it ends normally or by a fail, leaves
\* no variable with a smaller revision than it had before the pass, so the
\* revisions after a propagate() call are at least those before it; the
\* variables of a reified propagator, whose speculative steps are rolled
\* back, are included.
C20_RevisionsGrow ==
    [][DriverPass =>
        \A r \in DOMAIN fdvars : fdvars'[r].step >= fdvars[r].step]_vars

\* C20 witness: propagate() has returned on a space whose reified propagator
\* speculated and was rolled back: its boolean variable is still undecided,
\* its positive propagator exists, and a step of that propagator would
\* narrow a variable that stands as it was.
C20_Witness ==
    /\ pc = "stable"
    /\ \E i \in 1..Len(spaces[Top].propagators) :
          LET p == spaces[Top].propagators[i]
          IN /\ p.kind = "reified" /\ p.p # <<>>
             /\ is_undetermined(fdvars[p.space[3]])
             /\ \E r \in {simple_step(fdvars, p.p[1])} : ~r.fail /\ r.h # fdvars

\* C21: set_dom(d) raises the variable's revision by exactly one, and
\* installs d, when d holds other integers than the current domain, and
\* leaves domain and revision as they are when d holds the same integers.
C21_SetDom ==
    lastop.op = "set_dom" =>
        IF DomSet(lastop.out.d) # DomSet(lastop.out.before.dom)
        THEN lastop.out.after = FDVar(lastop.out.d, lastop.out.before.step + 1)
        ELSE lastop.out.after = lastop.out.before

\* The positive and the negative sub-propagator of the reified propagator P
\* of space S, as its step holds or creates them.
SubsOf(S, P) ==
    LET argv == <<P.allvars[1], P.allvars[2]>>
    IN { IF P.p = <<>> THEN InitSub(S, P.op, argv) ELSE P.p[1],
         IF P.np = <<>> THEN InitSub(S, complementary_operator(P.op), argv) ELSE P.np[1] }

\* C22: in a pass of propagate() over a reified propagator on (x, y, b), a
\* speculative step of either sub-propagator, whether it succeeds or fails,
\* leaves the domains and revisions of x and y as they were before it, and x
\* and y come out of the pass changed only if b is determined.
C22_Rollback ==
    [][DriverPass =>
        \A i \in 1..Len(spaces[Top].propagators) :
            LET P == spaces[Top].propagators[i]
                x == P.space[1]
                y == P.space[2]
                b == P.space[3]
            IN P.kind = "reified" =>
                 /\ is_undetermined(fdvars'[b]) =>
                       fdvars'[x] = fdvars[x] /\ fdvars'[y] = fdvars[y]
                 /\ is_undetermined(fdvars[b]) =>
                       \A sub \in SubsOf(spaces[Top], P) :
                          \E r \in {Speculate(fdvars, sub)} :
                             r.h[x] = fdvars[x] /\ r.h[y] = fdvars[y]]_vars

\* C22 witness: in a space where x was fixed by branching and y is still
\* undetermined, the boolean variable, declared [[0,1]] and branched on
\* last, has been decided by propagate(): a speculative step failed, was
\* rolled back, and b was constrained.
C22_Witness ==
    /\ pc = "stable"
    /\ script.decls[3][2] = << <<0, 1>> >>
    /\ script.dist[1].names = Names3 /\ script.dist[1].kind = "naive"
    /\ \E i \in 1..Len(spaces[Top].propagators) :
          LET P == spaces[Top].propagators[i]
          IN /\ P.kind = "reified" /\ P.p # <<>>
             /\ ~is_undetermined(fdvars[P.space[3]])
             /\ is_undetermined(fdvars[P.space[2]])

C24_Done ==
    \A sid \in 1..Len(spaces) :
        LET S == spaces[sid]
            par == S.clone_of
            D == done(spaces, sid)
        IN /\ par # 0 =>
                 /\ D[par].succeeded_children
                       = spaces[par].succeeded_children + S.succeeded_children
                 /\ D[par].failed_children
                       = spaces[par].failed_children + S.failed_children
                            + (IF S.failed THEN 1 ELSE 0)
                 /\ D[par].stable_children
                       = spaces[par].stable_children + S.stable_children
           /\ (S.succeeded_children = 0 /\ S.failed_children > 0) => D[sid].failed
           /\ \A t \in 1..Len(spaces) : t \notin {sid, par} => D[t] = spaces[t]

\* C25: solution() has an entry for every variable that is not a temporary
\* and for no temporary: the single value of a determined variable, the
\* domain of an undetermined one, false for an empty domain; so whenever
\* is_solved() is true every entry is one integer, the only value of the
\* variable's domain.
C25_Solution ==
    lastop.op = "solution" =>
        LET S == spaces[lastop.space]
            sol == lastop.out
        IN /\ DOMAIN sol = { n \in DOMAIN S.vars : ~IsTempName(n) }
           /\ \A n \in DOMAIN sol :
                 LET d == fdvars[S.vars[n]].dom
                 IN IF d = <<>> THEN sol[n] = FALSE
                    ELSE IF Cardinality(DomSet(d)) > 1 THEN sol[n] = d
                    ELSE DomSet(d) = {sol[n]}
           /\ lastop.solved =>
                 \A n \in DOMAIN sol : DomSet(fdvars[S.vars[n]].dom) = {sol[n]}

\* C25 witness: solution() was read on a solved space that holds
\* temporaries.
C25_Witness ==
    /\ lastop.op = "solution" /\ lastop.solved
    /\ \E n \in DOMAIN spaces[lastop.space].vars : IsTempName(n)

\* The constraint of the propagator p holds for the values a of its
\* variables (a[k] is the value of p.allvars[k]).
PropHolds(p, a) ==
    CASE p.kind \in {"eq", "neq", "lt", "lte"} -> OpHolds(p.kind, a[1], a[2])
      [] p.kind \in {"plus_sum", "plus_v1", "plus_v2"} -> a[1] + a[2] = a[3]
      [] p.kind = "reified" ->
            a[3] \in {0, 1} /\ (a[3] = 1 <=> OpHolds(p.op, a[1], a[2]))

\* The constraint of p holds for every combination of values of the current
\* domains of p's variables in space S.
Satisfied(h, S, p) ==
    LET n == Len(p.allvars)
        combos == { a \in [1..n -> 0..FD_SUP] :
                      \A k \in 1..n : a[k] \in DomSet(h[S.vars[p.allvars[k]]].dom) }
    IN \A a \in combos : PropHolds(p, a)

\* C26: at C = S.clone(), every propagator of S the clone omits has its
\* constraint satisfied by every combination of values of S's domains, and
\* if propagate() then returns on C with every variable determined, the
\* values satisfy every constraint posted in S.
C26_OmittedIsSatisfied ==
    [][Cloned =>
        LET C == spaces'[Len(spaces')]
            S == spaces[C.clone_of]
        IN /\ \A i \in 1..Len(S.propagators) :
                 propagator_is_solved(fdvars, S, S.propagators[i])
                    => Satisfied(fdvars, S, S.propagators[i])
           /\ \E r \in {propagate(fdvars', C)} :
                 (~r.fail /\ is_solved(r.h, C)) =>
                    \A k \in 1..Len(script.cons) :
                       Holds(script.cons[k],
                             [n \in DOMAIN C.vars |-> r.h[C.vars[n]].dom[1][1]])]_vars

\* C27: for every built-in value strategy and every undetermined variable,
\* committing choice 0 on one clone and choice 1 on another fails on neither
\* and leaves two non-empty, disjoint domains whose union is the domain the
\* variable has in the parent: no value is lost and none is offered twice.
C27_Partition ==
    lastop.op = "choices" =>
        /\ lastop.fail = <<FALSE, FALSE>>
        /\ DomSet(lastop.dom[1]) # {}
        /\ DomSet(lastop.dom[2]) # {}
        /\ DomSet(lastop.dom[1]) \cap DomSet(lastop.dom[2]) = {}
        /\ DomSet(lastop.dom[1]) \cup DomSet(lastop.dom[2]) = DomSet(lastop.parent)

C27_Witness ==
    /\ lastop.op = "choices"
    /\ lastop.value = "mid"
    /\ Len(lastop.parent) > 1
    /\ Len(lastop.dom[2]) > 1

\* C28: over the calls of depth_first made while more is true, no assignment
\* of the declared variables is returned as 'solved' twice: two spaces
\* returned as solved differ in the value of some declared variable.
C28_NoRepeat ==
    \A i, j \in 1..Len(found) :
        i < j => Values(script, found[i].vars) # Values(script, found[j].vars)

\* C28 witness: three spaces were returned as solved over separate calls, for
\* a script whose strategies split domains in halves.
C28_Witness ==
    /\ Len(found) >= 3
    /\ found[1].call < found[2].call /\ found[2].call < found[3].call
    /\ script.dist = << Dist("split", Names3) >>
    /\ state.more

\* The choices space S has left: numChoices - nextChoice once branch() gave
\* it a choice function, the two of a built-in strategy before that.
Remaining(S) ==
    IF S.commit = <<>> THEN 2 ELSE S.commit[1].numChoices - S.commit[1].nextChoice

\* The stack the next step works on: before the first call, the root alone.
WorkStack ==
    IF Len(state.stack) = 0 /\ state.status = "none" THEN <<state.space>> ELSE state.stack

\* The rank of stack position k: a space waiting below the top or between
\* two calls; the top being propagated; the top found stable.
RankAt(k) ==
    IF k < Len(WorkStack) \/ pc = "idle"
    THEN <<1 + Remaining(spaces[WorkStack[k]]), 1, 0, 0>>
    ELSE <<1 + Remaining(spaces[WorkStack[k]]), 0, SpaceMeasure(WorkStack[k]),
           IF pc = "propagate" THEN 1 ELSE 0>>

\* The ranks of the stack positions from k up, bottom first.
RECURSIVE RankFrom(_)
RankFrom(k) == IF k > Len(WorkStack) THEN <<>> ELSE RankAt(k) \o RankFrom(k + 1)

Rank == RankFrom(1)

\* a comes before b in the lexicographic order of sequences of naturals, the
\* shorter one continued with zeros.
RECURSIVE LexLessFrom(_, _, _)
LexLessFrom(a, b, i) ==
    IF i > Len(b) THEN FALSE
    ELSE IF i > Len(a) THEN b[i] > 0 \/ LexLessFrom(a, b, i + 1)
    ELSE IF a[i] # b[i] THEN a[i] < b[i]
    ELSE LexLessFrom(a, b, i + 1)

LexLess(a, b) == LexLessFrom(a, b, 1)

\* A step of the search is possible: a call while more is true (or the first
\* one), a pass of propagate() on the top of the stack, or, for a stable top,
\* returning it as solved, popping it, or pushing its next child (which the
\* bound on the depth of the stack does not prevent).
CanStep ==
    \/ pc = "idle" /\ (state.status = "none" \/ state.more)
    \/ pc = "propagate" /\ Len(state.stack) > 0
    \/ /\ pc = "stable"
       /\ Len(state.stack) > 0
       /\ \/ solve_for_variables(state.solve_vars, fdvars, spaces[Top])
          \/ Len(state.stack) < MaxDepth
          \/ \E nc \in {next_choice(TheWorld, Top)} : nc.child = 0 /\ ~nc.fail

\* C29: every call of depth_first and of branch_and_bound returns, and the
\* calls made while more is true end with more = false and an empty stack:
\* until then a step of the search is always possible, and every step lowers
\* Rank, a sequence of at most 4 * MaxDepth naturals (shorter ones continued
\* with zeros), in the lexicographic order, which has no infinite descending
\* chain.
C29_Terminates ==
    /\ [](Exhausted \/ CanStep)
    /\ [](Exhausted => Len(state.stack) = 0)
    /\ [][\E a \in {Rank} : \E b \in {Rank'} :
              LexLess(b, a) /\ \A i \in 1..Len(b) : b[i] >= 0]_vars

\* C29 witness: more = false was returned by the fourth call or a later one of
\* a search that had created eight spaces or more.
C29_Witness ==
    /\ Exhausted
    /\ lastop.n >= 4
    /\ Len(spaces) >= 8

\* The choice function space P holds after a step that pushed a child of P:
\* the one it held before, or the one branch() gives when it held none, with
\* nextChoice one higher.
Advanced(P) ==
    LET before == IF spaces[P].commit # <<>> THEN spaces[P].commit
                  ELSE brancher_branch(queues[spaces[P].queue], spaces[P].next_brancher,
                                       fdvars, spaces[P]).choice
    IN [before EXCEPT ![1].nextChoice = @ + 1]

\* Space C holds what a clone of P holds after the choice function ch of P
\* was applied to it with index i.
Committed(P, C, ch, i) ==
    /\ C = Len(spaces) + 1
    /\ spaces'[C].clone_of = P
    /\ spaces'[C].commit = <<>>
    /\ DOMAIN spaces'[C].vars = DOMAIN spaces[P].vars
    /\ \A n \in DOMAIN spaces[P].vars :
          /\ spaces'[C].vars[n] > Len(fdvars)
          /\ fdvars'[spaces'[C].vars[n]].dom =
                IF n = ch.v
                THEN options(ch.value, fdvars, spaces[P].vars[n], i).h[spaces[P].vars[n]].dom
                ELSE fdvars[spaces[P].vars[n]].dom
    /\ Snapshot(fdvars', spaces'[P]) = Snapshot(fdvars, spaces[P])

\* C30: a space on the stack takes its choice function from branch() once
\* and keeps it; each child pushed is a fresh clone of the stable unsolved
\* top, committed to index nextChoice, which then grows by one, so the
\* indices 0, 1, ... are committed in this order, each once, and none is
\* numChoices or more; a stable unsolved space is popped only when
\* nextChoice = numChoices or branch() returned null.
C30_Choices ==
    [][/\ \A sid \in 1..Len(spaces) :
             (pc # "stable" \/ sid # Top) => spaces'[sid].commit = spaces[sid].commit
       /\ (pc = "stable" /\ ~solve_for_variables(state.solve_vars, fdvars, spaces[Top])) =>
             /\ Len(state'.stack) >= Len(state.stack) =>
                   /\ state'.stack = Append(state.stack, Len(spaces) + 1)
                   /\ spaces'[Top].commit = Advanced(Top)
                   /\ Advanced(Top)[1].nextChoice - 1 \in 0..(Advanced(Top)[1].numChoices - 1)
                   /\ Committed(Top, Len(spaces) + 1, Advanced(Top)[1],
                                Advanced(Top)[1].nextChoice - 1)
             /\ Len(state'.stack) < Len(state.stack) =>
                   /\ spaces'[Top].commit = spaces[Top].commit
                   /\ IF spaces[Top].commit = <<>>
                      THEN brancher_branch(queues[spaces[Top].queue],
                               spaces[Top].next_brancher, fdvars, spaces[Top]).choice = <<>>
                      ELSE spaces[Top].commit[1].nextChoice
                              = spaces[Top].commit[1].numChoices]_vars

\* C30 witness: a stable unsolved space both of whose children were pushed
\* and popped is on top again, with no index left, on a stack of three.
C30_Witness ==
    /\ pc = "stable"
    /\ Len(state.stack) >= 3
    /\ spaces[Top].commit # <<>>
    /\ spaces[Top].commit[1].nextChoice = spaces[Top].commit[1].numChoices
    /\ Cardinality({c \in 1..Len(spaces) : spaces[c].clone_of = Top}) = 2

\* The queue indices (from 0) at or after the cursor of space S whose
\* strategy yields a choice for S.
Yielding(S) ==
    { i \in S.next_brancher..(Len(queues[S.queue]) - 1) :
          strategy_branch(queues[S.queue][i + 1], fdvars, S) # <<>> }

\* The least element of a non-empty set of naturals.
Least(I) == CHOOSE i \in I : \A j \in I : i <= j

\* C31: in every space, branch() returns the choice function of the first
\* strategy at a queue index at or after the cursor that yields one, and
\* leaves the cursor at that index; it returns null only when no strategy
\* from the cursor to the end of the queue yields a choice; the cursor of a
\* space never decreases and, once the queue has a strategy, is at most the
\* last queue index, also after a branch() that returned null.
C31_Branch ==
    /\ [](\A sid \in 1..Len(spaces) :
            \E S \in {spaces[sid]} :
            \E br \in {brancher_branch(queues[S.queue], S.next_brancher, fdvars, S)} :
               /\ S.next_brancher >= 0
               /\ S.next_brancher <= IF Len(queues[S.queue]) = 0 THEN 0
                                     ELSE Len(queues[S.queue]) - 1
               /\ br.next_brancher <= IF Len(queues[S.queue]) = 0 THEN 0
                                      ELSE Len(queues[S.queue]) - 1
               /\ br.next_brancher >= S.next_brancher
               /\ IF Yielding(S) = {} THEN br.choice = <<>>
                  ELSE /\ br.next_brancher = Least(Yielding(S))
                       /\ br.choice = strategy_branch(queues[S.queue][Least(Yielding(S)) + 1],
                                                      fdvars, S))
    /\ [][\A sid \in 1..Len(spaces) :
             spaces'[sid].next_brancher >= spaces[sid].next_brancher]_vars

\* C31 witness: a commit has just moved the cursor of a space past its first
\* strategy, which yields nothing there, to a later one, on a queue of three.
C31_Witness ==
    /\ lastop.op = "commit"
    /\ \E sid \in 1..Len(spaces) :
          /\ spaces[sid].commit # <<>>
          /\ spaces[sid].next_brancher >= 1
          /\ Len(queues[spaces[sid].queue]) >= 3
          /\ strategy_branch(queues[spaces[sid].queue][1], fdvars, spaces[sid]) = <<>>

\* Step on space s: its domains, its propagators, its choice function or its
\* cursor are not what they were.
Touched(s) ==
    \/ Snapshot(fdvars', spaces'[s]) # Snapshot(fdvars, spaces[s])
    \/ spaces'[s].propagators # spaces[s].propagators
    \/ spaces'[s].commit # spaces[s].commit
    \/ spaces'[s].next_brancher # spaces[s].next_brancher

\* The number of elements of the stack the step keeps, from the bottom.
RECURSIVE KeptFrom(_)
KeptFrom(k) ==
    IF k <= Len(state.stack) /\ k <= Len(state'.stack) /\ state'.stack[k] = state.stack[k]
    THEN KeptFrom(k + 1) ELSE k - 1

\* Space s has no choice left: branch() gave or gives null, or every index
\* of its choice function was committed.
NoChoiceLeft(s) ==
    IF spaces[s].commit = <<>>
    THEN brancher_branch(queues[spaces[s].queue], spaces[s].next_brancher,
                         fdvars, spaces[s]).choice = <<>>
    ELSE spaces[s].commit[1].nextChoice >= spaces[s].commit[1].numChoices

\* C32: the stack of depth_first and of branch_and_bound is a path of the
\* search tree from the starting space: its bottom is the starting space and
\* every other element is a clone of the one beneath it.  A step keeps a
\* prefix of the stack and pushes at most one new space; it works only on
\* spaces from the top of the kept prefix up, and each space it pops was
\* returned as solved, is failed, or has no choice left.
C32_StackIsPath ==
    /\ [](\A k \in 1..Len(state.stack) :
            IF k = 1 THEN state.stack[k] = 1 /\ spaces[1].clone_of = 0
            ELSE spaces[state.stack[k]].clone_of = state.stack[k - 1])
    /\ [][\E m \in {KeptFrom(1)} :
            /\ \/ state'.stack = SubSeq(state.stack, 1, m)
               \/ /\ state'.stack = Append(SubSeq(state.stack, 1, m), Len(spaces) + 1)
                  /\ Len(spaces') = Len(spaces) + 1
               \/ Len(state.stack) = 0 /\ state'.stack = <<state.space>>
            /\ \A k \in 1..Len(state.stack) : Touched(state.stack[k]) => k >= m
            /\ \A s \in 1..Len(spaces) :
                  (Touched(s) /\ Len(state.stack) > 0) =>
                      \E k \in 1..Len(state.stack) : state.stack[k] = s
            /\ \A k \in (m + 1)..Len(state.stack) : \E s \in {state.stack[k]} :
                  \/ state'.space = s /\ state'.status = "solved"
                        /\ Len(found') = Len(found) + 1
                  \/ spaces'[s].failed
                  \/ NoChoiceLeft(s)']_vars

\* C32 witness: a stack of four spaces, the top one failed a moment ago in a
\* branch_and_bound run that has a best solution.
C32_Witness ==
    /\ IsBB
    /\ Len(state.stack) >= 3
    /\ state.best # 0
    /\ pc = "propagate"
    /\ \E s \in 1..Len(spaces) : spaces[s].failed /\ spaces[s].clone_of = Top

\* The least and the greatest value of a non-empty domain.
MinOf(d) == CHOOSE v \in DomSet(d) : \A w \in DomSet(d) : v <= w

MaxOf(d) == CHOOSE v \in DomSet(d) : \A w \in DomSet(d) : v >= w

\* C33: the step of a new lt(x, y) propagator fails exactly when
\* min(x) >= max(y).  Otherwise it returns; when min(y) > max(x) nothing
\* changes and the propagator is marked solved; if not, max(x) < max(y) and
\* min(x) < min(y) hold afterwards, min(x) and max(y) are what they were,
\* and the new domains are subsets of the old ones.
C33_LtStep ==
    lastop.op = "lt_step" =>
        \E x \in {lastop.out.x} : \E y \in {lastop.out.y} : \E r \in {lastop.out.r} :
           /\ r.fail <=> MinOf(x) >= MaxOf(y)
           /\ ~r.fail =>
                 IF MinOf(y) > MaxOf(x)
                 THEN r.h = <<FDVar(x, 0), FDVar(y, 0)>> /\ r.p.solved /\ r.ret = 0
                 ELSE /\ r.h[1].dom # <<>> /\ r.h[2].dom # <<>>
                      /\ MaxOf(r.h[1].dom) < MaxOf(r.h[2].dom)
                      /\ MinOf(r.h[1].dom) < MinOf(r.h[2].dom)
                      /\ MinOf(r.h[1].dom) = MinOf(x)
                      /\ MaxOf(r.h[2].dom) = MaxOf(y)
                      /\ DomSet(r.h[1].dom) \subseteq DomSet(x)
                      /\ DomSet(r.h[2].dom) \subseteq DomSet(y)

\* C33 witness: a step that returned after cutting both domains, domains
\* with gaps among them.
C33_Witness ==
    /\ lastop.op = "lt_step"
    /\ ~lastop.out.r.fail
    /\ Len(lastop.out.x) > 1
    /\ DomSet(lastop.out.r.h[1].dom) # DomSet(lastop.out.x)
    /\ DomSet(lastop.out.r.h[2].dom) # DomSet(lastop.out.y)

\* C34: when the step of a new neq(x, y) propagator runs with x a single
\* value v and y holding v and other values, y holds afterwards what it held
\* without v, and x still holds v (and the same with x and y exchanged); the
\* step fails only when x and y are the same single value.
C34_NeqStep ==
    lastop.op = "neq_step" =>
        \E x \in {lastop.out.x} : \E y \in {lastop.out.y} : \E r \in {lastop.out.r} :
           /\ r.fail => (Cardinality(DomSet(x)) = 1 /\ DomSet(x) = DomSet(y))
           /\ (Cardinality(DomSet(x)) = 1 /\ DomSet(x) \subseteq DomSet(y)
                  /\ DomSet(x) # DomSet(y)) =>
                 /\ ~r.fail
                 /\ DomSet(r.h[2].dom) = DomSet(y) \ DomSet(x)
                 /\ DomSet(r.h[1].dom) = DomSet(x)
           /\ (Cardinality(DomSet(y)) = 1 /\ DomSet(y) \subseteq DomSet(x)
                  /\ DomSet(x) # DomSet(y)) =>
                 /\ ~r.fail
                 /\ DomSet(r.h[1].dom) = DomSet(x) \ DomSet(y)
                 /\ DomSet(r.h[2].dom) = DomSet(y)

\* The listed names of strategy b that are undetermined in space S.
Undetermined(b, S) ==
    { b.varnames[i] : i \in { j \in 1..Len(b.varnames) :
                                 is_undetermined(fdvars[S.vars[b.varnames[j]]]) } }

\* C35: in every space, a strategy enqueued by fail_first or split yields
\* null exactly when every variable of its list is determined, and otherwise
\* a choice on an undetermined variable of the list the number of whose
\* values is least among the undetermined variables of the list.
C35_SmallestFirst ==
    \A sid \in 1..Len(spaces) : \A i \in 1..Len(queues[spaces[sid].queue]) :
       \E S \in {spaces[sid]} : \E b \in {queues[spaces[sid].queue][i]} :
       \E ch \in {strategy_branch(b, fdvars, S)} :
          b.ordering = "size" =>
             /\ ch = <<>> <=> Undetermined(b, S) = {}
             /\ ch # <<>> =>
                   /\ ch[1].v \in Undetermined(b, S)
                   /\ \A n \in Undetermined(b, S) :
                         Cardinality(DomSet(fdvars[S.vars[ch[1].v]].dom))
                            <= Cardinality(DomSet(fdvars[S.vars[n]].dom))

\* C35 witness: a stable space in a search with fail_first where three
\* listed variables are undetermined and the chosen one, not the first of
\* the list, has fewer values than the first.
C35_Witness ==
    /\ pc = "stable"
    /\ script.dist = << Dist("fail_first", Names3) >>
    /\ \E b \in {queues[spaces[Top].queue][1]} :
       \E ch \in {strategy_branch(b, fdvars, spaces[Top])} :
          /\ Cardinality(Undetermined(b, spaces[Top])) = 3
          /\ ch[1].v # "X"
          /\ Cardinality(DomSet(fdvars[spaces[Top].vars[ch[1].v]].dom))
                < Cardinality(DomSet(fdvars[spaces[Top].vars["X"]].dom))

\* What variable n of space s holds now.
ValuesOf(s, n) == DomSet(fdvars[spaces[s].vars[n]].dom)

\* C36: no step of a search adds a value to a domain: after a pass of
\* propagate() (returning or failing), a commit, a pop or a return, every
\* variable of every space holds a subset of what it held, and every variable
\* of a new space holds a subset of what the variable of that name held in
\* the space it is a clone of.
C36_OnlyShrinks ==
    [][/\ \A s \in 1..Len(spaces) : \A n \in DOMAIN spaces[s].vars :
             /\ n \in DOMAIN spaces'[s].vars
             /\ ValuesOf(s, n)' \subseteq ValuesOf(s, n)
       /\ \A c \in (Len(spaces) + 1)..Len(spaces') :
             \A n \in DOMAIN spaces[spaces'[c].clone_of].vars :
                /\ n \in DOMAIN spaces'[c].vars
                /\ ValuesOf(c, n)' \subseteq ValuesOf(spaces'[c].clone_of, n)]_vars

\* C36 witness: in a branch_and_bound run with a best solution, the top of
\* a stack of three is a committed clone being propagated for the second
\* pass, and holds fewer values for X than the starting space.
C36_Witness ==
    /\ IsBB
    /\ state.best # 0
    /\ Len(state.stack) >= 3
    /\ pc = "propagate" /\ passes >= 1
    /\ ValuesOf(Top, "X") # ValuesOf(1, "X")
    /\ ValuesOf(Top, "X") \subseteq ValuesOf(1, "X")

\* Space s is one whose propagation failed: it is marked failed and was
\* never branched (a space done() marks failed has failed children).
PropagationFailed(s) ==
    /\ spaces[s].failed
    /\ \A c \in 1..Len(spaces) : spaces[c].clone_of # s

\* C37: once depth_first has returned more = false, the counters of the
\* starting space tell the whole search: succeeded_children is the number of
\* calls that returned 'solved', failed_children the number of spaces whose
\* propagation failed, and the three counters add up to the number of spaces
\* explored, the starting space included.
C37_Counters ==
    Exhausted =>
        /\ spaces[1].succeeded_children = Len(found)
        /\ spaces[1].failed_children
              = Cardinality({s \in 1..Len(spaces) : PropagationFailed(s)})
        /\ spaces[1].succeeded_children + spaces[1].failed_children
              + spaces[1].stable_children = Len(spaces)

\* C38: a construction call that raised a usage error left the space as it
\* was: the same names with the same domains and revisions, and the same
\* propagators.
C38_RefusedCallsChangeNothing ==
    (lastop.op = "call" /\ lastop.error) =>
        /\ DOMAIN spaces[lastop.space].vars = lastop.names
        /\ SpaceView(lastop.space) = lastop.before

====
